---------------------------- MODULE Spec2Model ----------------------------
(***************************************************************************)
(* A model of the analytics layer of student-grades-viewer                 *)
(* (src/utils/statsUtils.ts) and of the chart components that call it.     *)
(*                                                                         *)
(* Conventions                                                             *)
(*  - A JavaScript string is a sequence of characters.  An ASCII character *)
(*    is the one-character TLA+ string; a CJK character is written as its  *)
(*    code point, "u603B" for U+603B, because the module is ASCII only.    *)
(*  - A cell of a sheet is a record [t, n, s]: t is the JavaScript type    *)
(*    ("null", "number" or "string"), n the number, s the string.          *)
(*  - Numbers are integers.  Where the code divides or multiplies by a     *)
(*    decimal literal, the comparison is made on the cross-multiplied      *)
(*    integers, which is what the IEEE-754 evaluation yields for the       *)
(*    values of the bounded inputs used here.                              *)
(*  - JavaScript indices are 0-based and are kept 0-based in records;      *)
(*    TLA+ sequences are 1-based.                                          *)
(***************************************************************************)
EXTENDS Integers, Sequences, FiniteSets, TLC

VARIABLES
    sheet,        \* the active Sheet: [columns, rows]
    sheetName,    \* the active sheet's name (StatsDashboard's sheetName prop)
    numericCols,  \* StatsDashboard's numericColumns memo: [ready, cols]
    passRate,     \* PassRateChart: [selectedIndex, calls]
    heatmap,      \* ScoreHeatmap: [selectedColIndex, calls]
    call          \* one call of a pure function of statsUtils: [op, args, done, ret]

vars == <<sheet, sheetName, numericCols, passRate, heatmap, call>>

---------------------------------------------------------------------------
(* Arithmetic helpers *)

Min2(a, b) == IF a <= b THEN a ELSE b

Max2(a, b) == IF a >= b THEN a ELSE b

\* Math.floor(a / b) for b > 0
FloorDiv(a, b) == a \div b

\* Math.ceil(a / b) for b > 0
CeilDiv(a, b) == -((-a) \div b)

RECURSIVE SumSeq(_)
SumSeq(s) == IF s = <<>> THEN 0 ELSE Head(s) + SumSeq(Tail(s))

\* Math.max(...values) and Math.min(...values) of a non-empty array
MaxOf(s) == CHOOSE m \in {s[i] : i \in DOMAIN s} : \A j \in DOMAIN s : s[j] <= m

MinOf(s) == CHOOSE m \in {s[i] : i \in DOMAIN s} : \A j \in DOMAIN s : s[j] >= m

\* All sequences over S of length lo..hi
SeqsOf(S, lo, hi) == UNION {[1..n -> S] : n \in lo..hi}

\* Array.prototype.map
MapSeq(s, F(_)) == [i \in DOMAIN s |-> F(s[i])]

---------------------------------------------------------------------------
(* Strings *)

UpperLetters ==
    <<"A","B","C","D","E","F","G","H","I","J","K","L","M",
      "N","O","P","Q","R","S","T","U","V","W","X","Y","Z">>

LowerLetters ==
    <<"a","b","c","d","e","f","g","h","i","j","k","l","m",
      "n","o","p","q","r","s","t","u","v","w","x","y","z">>

LowerChar(c) ==
    IF \E i \in DOMAIN UpperLetters : UpperLetters[i] = c
    THEN LowerLetters[CHOOSE i \in DOMAIN UpperLetters : UpperLetters[i] = c]
    ELSE c

\* String.prototype.toLowerCase
ToLowerCase(s) == [i \in DOMAIN s |-> LowerChar(s[i])]

\* String.prototype.includes
Includes(s, sub) ==
    \E i \in 0..(Len(s) - Len(sub)) : SubSeq(s, i + 1, i + Len(sub)) = sub

\* The literals of the source
S_hao      == <<"u53F7">>
S_ci       == <<"u6B21">>
S_banji    == <<"u73ED", "u7EA7">>
S_ban      == <<"u73ED">>
S_xingming == <<"u59D3", "u540D">>
S_zongfen  == <<"u603B", "u5206">>
S_yushuying == <<"u8BED", "u6570", "u82F1">>
S_yuwen    == <<"u8BED", "u6587">>
S_shuxue   == <<"u6570", "u5B66">>
S_yingyu   == <<"u82F1", "u8BED">>
S_chengji  == <<"u6210", "u7EE9">>
S_id       == <<"i", "d">>
S_rank     == <<"r", "a", "n", "k">>
S_name     == <<"n", "a", "m", "e">>
S_class    == <<"c", "l", "a", "s", "s">>
S_Total    == <<"T", "o", "t", "a", "l">>
S_English  == <<"E", "n", "g", "l", "i", "s", "h">>
S_Chinese  == <<"C", "h", "i", "n", "e", "s", "e">>
S_Math     == <<"M", "a", "t", "h">>

Digits == <<"0","1","2","3","4","5","6","7","8","9">>

IsDigit(c) == \E i \in DOMAIN Digits : Digits[i] = c

DigitVal(c) == (CHOOSE i \in DOMAIN Digits : Digits[i] = c) - 1

NaN == [nan |-> TRUE, val |-> 0]

Finite(v) == [nan |-> FALSE, val |-> v]

RECURSIVE SkipSpaces(_)
SkipSpaces(s) == IF s # <<>> /\ Head(s) = " " THEN SkipSpaces(Tail(s)) ELSE s

RECURSIVE DigitPrefix(_)
DigitPrefix(s) ==
    IF s # <<>> /\ IsDigit(Head(s)) THEN <<Head(s)>> \o DigitPrefix(Tail(s)) ELSE <<>>

RECURSIVE DecimalValue(_)
DecimalValue(ds) ==
    IF ds = <<>> THEN 0
    ELSE 10 * DecimalValue(SubSeq(ds, 1, Len(ds) - 1)) + DigitVal(ds[Len(ds)])

\* parseFloat on strings made of spaces, a sign, digits and letters: leading
\* white space is skipped, an optional sign and the longest run of digits are
\* read, and what follows is ignored; no digit gives NaN.
ParseFloat(s) ==
    LET t    == SkipSpaces(s)
        neg  == t # <<>> /\ Head(t) = "-"
        sgn  == t # <<>> /\ Head(t) \in {"-", "+"}
        body == IF sgn THEN Tail(t) ELSE t
        ds   == DigitPrefix(body)
    IN  IF ds = <<>> THEN NaN
        ELSE Finite(IF neg THEN -DecimalValue(ds) ELSE DecimalValue(ds))

---------------------------------------------------------------------------
(* Cells and sheets (src/types.ts) *)

Null == [t |-> "null", n |-> 0, s |-> <<>>]

Num(v) == [t |-> "number", n |-> v, s |-> <<>>]

Str(s) == [t |-> "string", n |-> 0, s |-> s]

RECURSIVE NatToString(_)
NatToString(n) ==
    IF n < 10 THEN <<Digits[n + 1]>>
    ELSE NatToString(n \div 10) \o <<Digits[(n % 10) + 1]>>

\* String(n) for an integer n
NumberToString(n) == IF n < 0 THEN <<"-">> \o NatToString(-n) ELSE NatToString(n)

\* String(cell)
StringOf(c) ==
    CASE c.t = "null"   -> <<"n", "u", "l", "l">>
      [] c.t = "string" -> c.s
      [] c.t = "number" -> NumberToString(c.n)

EmptySheet == [columns |-> <<>>, rows |-> <<>>]

---------------------------------------------------------------------------
(* Column classifier *)

isExcludedColumn(name) ==
    LET lower == ToLowerCase(name)
    IN  \/ Includes(lower, S_hao)
        \/ Includes(lower, S_id)
        \/ Includes(lower, S_ci)
        \/ Includes(lower, S_rank)
        \/ Includes(lower, S_banji)
        \/ Includes(lower, S_xingming)
        \/ Includes(lower, S_name)

\* The test of one cell in getNumericColumns's row loop
IsNumericCell(c) ==
    \/ c.t = "number"
    \/ c.t = "string" /\ ~ParseFloat(c.s).nan

\* The value the row loop pushes for a numeric cell
NumericValue(c) == IF c.t = "number" THEN c.n ELSE ParseFloat(c.s).val

HalfOrMore(validCount, rowCount) == 2 * validCount >= rowCount

\* The threshold of getNumericColumns: validCount > rows.length * 0.5
MoreThanHalf(validCount, rowCount) == 2 * validCount > rowCount

\* The body of getNumericColumns's columns.forEach for the column at
\* 1-based position idx: the NumericColumn pushed, or nothing.
ScanColumn(sh, idx) ==
    LET colName    == sh.columns[idx]
        cells      == [r \in DOMAIN sh.rows |-> sh.rows[r][idx]]
        numeric    == SelectSeq(cells, IsNumericCell)
        values     == MapSeq(numeric, NumericValue)
        validCount == Len(numeric)
    IN  IF isExcludedColumn(colName) THEN <<>>
        ELSE IF MoreThanHalf(validCount, Len(sh.rows)) /\ Len(values) > 0
             THEN << [name    |-> colName,
                      index   |-> idx - 1,
                      values  |-> values,
                      average |-> [num |-> SumSeq(values), den |-> Len(values)],
                      max     |-> MaxOf(values),
                      min     |-> MinOf(values)] >>
             ELSE <<>>

RECURSIVE ScanColumns(_, _)
ScanColumns(sh, idx) ==
    IF idx > Len(sh.columns) THEN <<>>
    ELSE ScanColumn(sh, idx) \o ScanColumns(sh, idx + 1)

getNumericColumns(sh) == ScanColumns(sh, 1)

---------------------------------------------------------------------------
(* Full-mark heuristic, pass tallies, score bands *)

\* /u603Bu5206|Total/.test(colName)
IsTotalName(colName) == Includes(colName, S_zongfen) \/ Includes(colName, S_Total)

IsCoreName(colName) ==
    \/ Includes(colName, S_yuwen)
    \/ Includes(colName, S_shuxue)
    \/ Includes(colName, S_yingyu)
    \/ Includes(colName, S_English)
    \/ Includes(colName, S_Chinese)
    \/ Includes(colName, S_Math)

\* The combined-subjects pattern tested before the total pattern
FullMarkCombinedFirst(colName) ==
    IF Includes(colName, S_yushuying) THEN 450
    ELSE IF IsTotalName(colName) THEN 0
    ELSE IF IsCoreName(colName) THEN 150
    ELSE 100

getFullMark(colName) ==
    IF IsTotalName(colName) THEN 0
    ELSE IF Includes(colName, S_yushuying) THEN 450
    ELSE IF IsCoreName(colName) THEN 150
    ELSE 100

MoreThanShare(v, fullMark, pct) == 100 * v > pct * fullMark

\* v >= fullMark * (pct / 100), with pct one of the literals 0.85, 0.6
AtLeastShare(v, fullMark, pct) == 100 * v >= pct * fullMark

PassTallyStrictPass(v, fullMark) ==
    IF AtLeastShare(v, fullMark, 85) THEN "excellent"
    ELSE IF 100 * v > 60 * fullMark THEN "pass"
    ELSE "fail"

\* The tally one value adds to in calculatePassStats's forEach
PassTally(v, fullMark) ==
    IF AtLeastShare(v, fullMark, 85) THEN "excellent"
    ELSE IF AtLeastShare(v, fullMark, 60) THEN "pass"
    ELSE "fail"

CountTally(values, fullMark, tally) ==
    Cardinality({i \in DOMAIN values : PassTally(values[i], fullMark) = tally})

calculatePassStats(values, colName) ==
    LET fullMark == getFullMark(colName)
    IN  [excellent |-> CountTally(values, fullMark, "excellent"),
         pass      |-> CountTally(values, fullMark, "pass"),
         fail      |-> CountTally(values, fullMark, "fail"),
         total     |-> Len(values)]

\* (v / fullMark) >= pct / 100 as JavaScript evaluates it: v / 0 is
\* Infinity, -Infinity or NaN, and a negative divisor turns the order round.
RatioAtLeast(v, fullMark, pct) ==
    IF fullMark > 0 THEN 100 * v >= pct * fullMark
    ELSE IF fullMark = 0 THEN v > 0
    ELSE 100 * v <= pct * fullMark

BucketKeys == <<"90%~", "85%~90%", "80%~85%", "70%~80%", "60%~70%", "<60%">>

\* The top band entered only above 90%
BucketOfStrictTop(v, fullMark) ==
    IF 100 * v > 90 * fullMark THEN "90%~"
    ELSE IF RatioAtLeast(v, fullMark, 85) THEN "85%~90%"
    ELSE IF RatioAtLeast(v, fullMark, 80) THEN "80%~85%"
    ELSE IF RatioAtLeast(v, fullMark, 70) THEN "70%~80%"
    ELSE IF RatioAtLeast(v, fullMark, 60) THEN "60%~70%"
    ELSE "<60%"

\* The band one value adds to in calculateScoreBuckets's forEach
BucketOf(v, fullMark) ==
    IF RatioAtLeast(v, fullMark, 90) THEN "90%~"
    ELSE IF RatioAtLeast(v, fullMark, 85) THEN "85%~90%"
    ELSE IF RatioAtLeast(v, fullMark, 80) THEN "80%~85%"
    ELSE IF RatioAtLeast(v, fullMark, 70) THEN "70%~80%"
    ELSE IF RatioAtLeast(v, fullMark, 60) THEN "60%~70%"
    ELSE "<60%"

calculateScoreBuckets(values, fullMark) ==
    [k \in {BucketKeys[i] : i \in DOMAIN BucketKeys} |->
        Cardinality({i \in DOMAIN values : BucketOf(values[i], fullMark) = k})]

---------------------------------------------------------------------------
(* Grouping by class *)

IsClassColumn(c) == Includes(c, S_ban) \/ ToLowerCase(c) = S_class

\* columns.findIndex(...) as a 1-based position, 0 for -1
FindClassIndex(columns) ==
    IF \E i \in DOMAIN columns : IsClassColumn(columns[i])
    THEN CHOOSE i \in DOMAIN columns :
            IsClassColumn(columns[i]) /\ \A j \in 1..(i - 1) : ~IsClassColumn(columns[j])
    ELSE 0

\* The inner numericCols.forEach of getGroupedByClass for one row: group is
\* classGroups[cls], a map from column name to the values pushed so far.
RECURSIVE PushRow(_, _, _, _)
PushRow(group, row, cols, k) ==
    IF k > Len(cols) THEN group
    ELSE LET col == cols[k]
             val == row[col.index + 1]
             old == IF col.name \in DOMAIN group THEN group[col.name] ELSE <<>>
         IN  IF val.t = "number"
             THEN PushRow((col.name :> Append(old, val.n)) @@ group, row, cols, k + 1)
             ELSE PushRow(group, row, cols, k + 1)

\* Names every object literal inherits from Object.prototype with a function
\* as value: classGroups[name] is truthy for them from the start
S_constructor == <<"c", "o", "n", "s", "t", "r", "u", "c", "t", "o", "r">>

S_toString == <<"t", "o", "S", "t", "r", "i", "n", "g">>

S_valueOf == <<"v", "a", "l", "u", "e", "O", "f">>

InheritedFunctionKeys == {S_constructor, S_toString, S_valueOf}

\* The rows.forEach of getGroupedByClass from row r on.  classGroups holds
\* the object's own properties.  For a label that is an inherited function
\* key, !classGroups[cls] is false, no own property is made, and the row's
\* values are pushed to arrays hung on that inherited function, outside the
\* returned object.
RECURSIVE GroupRows(_, _, _, _, _)
GroupRows(classGroups, sh, cols, classIdx, r) ==
    IF r > Len(sh.rows) THEN classGroups
    ELSE LET row   == sh.rows[r]
             cls   == StringOf(row[classIdx])
             group == IF cls \in DOMAIN classGroups THEN classGroups[cls] ELSE <<>>
         IN  IF cls \in InheritedFunctionKeys /\ cls \notin DOMAIN classGroups
             THEN GroupRows(classGroups, sh, cols, classIdx, r + 1)
             ELSE GroupRows((cls :> PushRow(group, row, cols, 1)) @@ classGroups,
                            sh, cols, classIdx, r + 1)

\* null is [isNull |-> TRUE]; a map is [isNull |-> FALSE, groups |-> map]
getGroupedByClass(sh, cols) ==
    LET classIdx == FindClassIndex(sh.columns)
    IN  IF classIdx = 0 THEN [isNull |-> TRUE, groups |-> <<>>]
        ELSE [isNull |-> FALSE, groups |-> GroupRows(<<>>, sh, cols, classIdx, 1)]

---------------------------------------------------------------------------
(* Bounded inputs of the dashboard specification *)

\* The longest sheet, in rows
MaxRows == 2

N_banji   == S_banji
N_Class   == <<"C", "l", "a", "s", "s">>
N_ID      == <<"I", "D">>
N_zongfen == S_zongfen
N_Total   == S_Total
N_yuwen   == S_yuwen

ColumnNames == {N_banji, N_Class, N_ID, N_zongfen, N_Total, N_yuwen}

FirstColumnNames == {N_banji, N_Class, N_ID}

\* Cells of the first column: class labels, a class number, a missing cell
FirstCells == {Null, Num(1), Str(<<"A">>)}

\* Cells of the second column: scores, a numeric string, text, a missing cell
SecondCells == {Null, Num(50), Num(90), Str(<<"8", "5">>), Str(<<"x">>)}

SheetRows == {<<a, b>> : a \in FirstCells, b \in SecondCells}

Sheets ==
    {[columns |-> <<c1, c2>>, rows |-> rs] :
        c1 \in FirstColumnNames, c2 \in ColumnNames, rs \in SeqsOf(SheetRows, 0, MaxRows)}

SheetTitles == {S_chengji, <<"S">>}

---------------------------------------------------------------------------
(* StatsDashboard, PassRateChart, ScoreHeatmap *)

\* StatsDashboard: sheet.rows.length < 15 marks a summary sheet
SummaryRowLimit == 15

isSummarySheet(sh, title) ==
    IF Includes(title, S_chengji) THEN FALSE ELSE Len(sh.rows) < SummaryRowLimit

\* StatsDashboard renders its charts only past both early returns
ChartsShown(sh, title, cols) == ~isSummarySheet(sh, title) /\ Len(cols) > 0

\* PassRateChart.subjectColumns
subjectColumns(cols) ==
    LET IsSubject(c) == ~Includes(c.name, S_zongfen) /\ ~Includes(c.name, S_Total)
    IN  SelectSeq(cols, IsSubject)

\* PassRateChart.chartData for the 0-based selectedIndex: the calls made to
\* calculatePassStats, each with the full mark it used.
PassRateCalls(cols, selectedIndex) ==
    LET subjects == subjectColumns(cols)
    IN  IF selectedIndex + 1 \in DOMAIN subjects
        THEN LET currentSubject == subjects[selectedIndex + 1]
             IN  << [colName  |-> currentSubject.name,
                     values   |-> currentSubject.values,
                     fullMark |-> getFullMark(currentSubject.name),
                     stats    |-> calculatePassStats(currentSubject.values,
                                                     currentSubject.name)] >>
        ELSE <<>>

\* numericCols.find(c => c.index === i) as a sequence of at most one column
FindByIndex(cols, i) ==
    LET hits == SelectSeq(cols, LAMBDA c : c.index = i)
    IN  IF hits = <<>> THEN <<>> ELSE <<Head(hits)>>

\* ScoreHeatmap's initial selectedColIndex
initialColIndex(cols) ==
    LET totals == SelectSeq(cols, LAMBDA c : Includes(c.name, S_zongfen))
    IN  IF totals # <<>> THEN Head(totals).index
        ELSE IF cols # <<>> THEN Head(cols).index
        ELSE -1

\* The full mark ScoreHeatmap.heatmapData uses for the selected column
HeatmapFullMark(selectedCol) ==
    IF Includes(selectedCol.name, S_zongfen) THEN selectedCol.max
    ELSE getFullMark(selectedCol.name)

\* ScoreHeatmap.heatmapData: the calls made to calculateScoreBuckets, one per
\* class (a set: the order of Object.keys(groups).sort() is left out).
HeatmapCalls(sh, cols, selectedColIndex) ==
    LET found == FindByIndex(cols, selectedColIndex)
    IN  IF selectedColIndex = -1 \/ found = <<>> THEN {}
        ELSE LET selectedCol == found[1]
                 got         == getGroupedByClass(sh, <<selectedCol>>)
                 fullMark    == HeatmapFullMark(selectedCol)
             IN  IF got.isNull THEN {}
                 ELSE {LET scores == IF selectedCol.name \in DOMAIN got.groups[cls]
                                     THEN got.groups[cls][selectedCol.name]
                                     ELSE <<>>
                       IN  [name     |-> cls,
                            scores   |-> scores,
                            fullMark |-> fullMark,
                            buckets  |-> calculateScoreBuckets(scores, fullMark)] :
                       cls \in DOMAIN got.groups}

NoCall == [op |-> "none"]

Init ==
    /\ sheet \in Sheets
    /\ sheetName \in SheetTitles
    /\ numericCols = [ready |-> FALSE, cols |-> <<>>]
    /\ passRate = [selectedIndex |-> 0, calls |-> <<>>]
    /\ heatmap = [selectedColIndex |-> -1, calls |-> {}]
    /\ call = NoCall

\* The first render of StatsDashboard and, past its early returns, of the
\* charts it mounts
RenderDashboard ==
    /\ ~numericCols.ready
    /\ LET cols == getNumericColumns(sheet)
       IN  /\ numericCols' = [ready |-> TRUE, cols |-> cols]
           /\ IF ChartsShown(sheet, sheetName, cols)
              THEN /\ passRate' = [selectedIndex |-> 0,
                                   calls |-> PassRateCalls(cols, 0)]
                   /\ heatmap' = [selectedColIndex |-> initialColIndex(cols),
                                  calls |-> HeatmapCalls(sheet, cols, initialColIndex(cols))]
              ELSE UNCHANGED <<passRate, heatmap>>
    /\ UNCHANGED <<sheet, sheetName, call>>

\* PassRateChart's <select>: one option per subject column
SelectPassRateSubject ==
    /\ numericCols.ready
    /\ ChartsShown(sheet, sheetName, numericCols.cols)
    /\ \E i \in 0..(Len(subjectColumns(numericCols.cols)) - 1) :
          /\ i # passRate.selectedIndex
          /\ passRate' = [selectedIndex |-> i,
                          calls |-> PassRateCalls(numericCols.cols, i)]
    /\ UNCHANGED <<sheet, sheetName, numericCols, heatmap, call>>

\* ScoreHeatmap's <select>: one option per numeric column
SelectHeatmapColumn ==
    /\ numericCols.ready
    /\ ChartsShown(sheet, sheetName, numericCols.cols)
    /\ \E k \in DOMAIN numericCols.cols :
          LET i == numericCols.cols[k].index
          IN  /\ i # heatmap.selectedColIndex
              /\ heatmap' = [selectedColIndex |-> i,
                             calls |-> HeatmapCalls(sheet, numericCols.cols, i)]
    /\ UNCHANGED <<sheet, sheetName, numericCols, passRate, call>>

Next == RenderDashboard \/ SelectPassRateSubject \/ SelectHeatmapColumn

Spec == Init /\ [][Next]_vars

---------------------------------------------------------------------------
(* Calls of the pure functions: the dashboard's variables stay as mounted *)

NoRet == [none |-> TRUE]

DashboardIdle ==
    /\ sheet = EmptySheet
    /\ sheetName = <<>>
    /\ numericCols = [ready |-> FALSE, cols |-> <<>>]
    /\ passRate = [selectedIndex |-> 0, calls |-> <<>>]
    /\ heatmap = [selectedColIndex |-> -1, calls |-> {}]

DashboardUnchanged == UNCHANGED <<sheet, sheetName, numericCols, passRate, heatmap>>

Pending(op) == call.op = op /\ ~call.done

Returned(op) == call.op = op /\ call.done

---------------------------------------------------------------------------
(* Rank and percentile, grade from percentile *)

\* Array.prototype.sort with (a, b) => b - a, on a copy
RECURSIVE InsertDescending(_, _)
InsertDescending(x, s) ==
    IF s = <<>> THEN <<x>>
    ELSE IF x > Head(s) THEN <<x>> \o s
    ELSE <<Head(s)>> \o InsertDescending(x, Tail(s))

RECURSIVE InsertAscending(_, _)
InsertAscending(x, s) ==
    IF s = <<>> THEN <<x>>
    ELSE IF x < Head(s) THEN <<x>> \o s
    ELSE <<Head(s)>> \o InsertAscending(x, Tail(s))

RECURSIVE SortAscending(_)
SortAscending(s) ==
    IF s = <<>> THEN <<>> ELSE InsertAscending(s[Len(s)], SortAscending(SubSeq(s, 1, Len(s) - 1)))

UnsortedCopy(s) == s

\* [...col.values].sort((a, b) => b - a) of DataTable.columnValuesCache and
\* StudentDetailModal.numericColumnsMap
RECURSIVE SortDescending(_)
SortDescending(s) ==
    IF s = <<>> THEN <<>> ELSE InsertDescending(s[Len(s)], SortDescending(SubSeq(s, 1, Len(s) - 1)))

\* values.sort((a, b) => a - b) with no copy: the argument itself is reordered
BoxPlotSortsArgument(values) ==
    [argument |-> SortAscending(values), sorted |-> SortAscending(values)]

\* The arrays after "[...values].sort((a, b) => a - b)": the spread makes a
\* new array, sort reorders that array in place and returns it; the argument
\* keeps its elements and their order.
BoxPlotArrays(values) ==
    [argument |-> values, sorted |-> SortAscending(values)]

\* The arrays after "[...col.values].sort((a, b) => b - a)" of
\* DataTable.columnValuesCache
RankArrays(values) ==
    [argument |-> values, sorted |-> SortDescending(values)]

\* A rational number num / den with den > 0
Ratio(a, b) == [num |-> a, den |-> b]

RankStatsWrongDenominator(score, sortedValues) ==
    LET total == Len(sortedValues)
        hits  == {i \in DOMAIN sortedValues : score >= sortedValues[i]}
        rank  == IF hits = {} THEN total
                 ELSE CHOOSE i \in hits : \A j \in hits : i <= j
    IN  IF total = 0 THEN [rank |-> 0, total |-> 0, percentile |-> Ratio(0, 1)]
        ELSE [rank |-> rank, total |-> total, percentile |-> Ratio(total - rank, total)]

\* getScoreRankStats(score, sortedValues): the rank is the 1-based position of
\* the first element the score reaches, the length when there is none.
getScoreRankStats(score, sortedValues) ==
    LET total == Len(sortedValues)
        hits  == {i \in DOMAIN sortedValues : score >= sortedValues[i]}
        rank  == IF hits = {} THEN total
                 ELSE CHOOSE i \in hits : \A j \in hits : i <= j
    IN  IF total = 0 THEN [rank |-> 0, total |-> 0, percentile |-> Ratio(0, 1)]
        ELSE [rank       |-> rank,
              total      |-> total,
              percentile |-> IF total > 1 THEN Ratio(total - rank, total - 1)
                             ELSE Ratio(1, 1)]

\* p >= pct / 100 for a rational p
PercentileAtLeast(p, pct) == 100 * p.num >= pct * p.den

GradeFromPercentileStrict(p) ==
    IF 100 * p.num > 95 * p.den THEN "A+"
    ELSE IF PercentileAtLeast(p, 85) THEN "A"
    ELSE IF PercentileAtLeast(p, 70) THEN "A-"
    ELSE IF PercentileAtLeast(p, 50) THEN "B+"
    ELSE IF PercentileAtLeast(p, 30) THEN "B"
    ELSE IF PercentileAtLeast(p, 15) THEN "B-"
    ELSE IF PercentileAtLeast(p, 5) THEN "C"
    ELSE "D"

\* getGradeFromPercentile(p): the label of the GradeAttributes returned (the
\* colour token is left out)
getGradeFromPercentile(p) ==
    IF PercentileAtLeast(p, 95) THEN "A+"
    ELSE IF PercentileAtLeast(p, 85) THEN "A"
    ELSE IF PercentileAtLeast(p, 70) THEN "A-"
    ELSE IF PercentileAtLeast(p, 50) THEN "B+"
    ELSE IF PercentileAtLeast(p, 30) THEN "B"
    ELSE IF PercentileAtLeast(p, 15) THEN "B-"
    ELSE IF PercentileAtLeast(p, 5) THEN "C"
    ELSE "D"

\* The longest column ranked
MaxPopulation == 4

RankValues == {70, 90, 100}

RankScores == {60, 70, 80, 90, 100, 110}

InitRank ==
    /\ DashboardIdle
    /\ call \in {[op |-> "rank", values |-> vs, score |-> sc, done |-> FALSE, ret |-> NoRet] :
                    vs \in SeqsOf(RankValues, 0, MaxPopulation), sc \in RankScores}

\* DataTable.getCellClass / StudentDetailModal.subjectData for one cell: the
\* column's values sorted descending on a copy, the cell ranked against them,
\* the percentile graded.
RankCell ==
    /\ Pending("rank")
    /\ LET sortedValues == SortDescending(call.values)
           stats        == getScoreRankStats(call.score, sortedValues)
       IN  call' = [call EXCEPT !.done = TRUE,
                                !.ret = [sortedValues |-> sortedValues,
                                         stats        |-> stats,
                                         grade        |-> getGradeFromPercentile(stats.percentile)]]
    /\ DashboardUnchanged

NextRank == RankCell

SpecRank == InitRank /\ [][NextRank]_vars

---------------------------------------------------------------------------
(* Grade from a raw score *)

\* score / fullMark >= pct / 100 for fullMark > 0
ScoreRatioAtLeast(score, fullMark, pct) == 100 * score >= pct * fullMark

GradeAttributesStrictA(score, fullMark) ==
    IF fullMark <= 0 THEN "null"
    ELSE IF ScoreRatioAtLeast(score, fullMark, 95) THEN "A+"
    ELSE IF 100 * score > 90 * fullMark THEN "A"
    ELSE IF ScoreRatioAtLeast(score, fullMark, 85) THEN "A-"
    ELSE IF ScoreRatioAtLeast(score, fullMark, 80) THEN "B+"
    ELSE IF ScoreRatioAtLeast(score, fullMark, 75) THEN "B"
    ELSE IF ScoreRatioAtLeast(score, fullMark, 70) THEN "B-"
    ELSE IF ScoreRatioAtLeast(score, fullMark, 60) THEN "C"
    ELSE "D"

\* getGradeAttributes(score, fullMark): the label returned, "null" for null
\* (the colour token is left out)
getGradeAttributes(score, fullMark) ==
    IF fullMark <= 0 THEN "null"
    ELSE IF ScoreRatioAtLeast(score, fullMark, 95) THEN "A+"
    ELSE IF ScoreRatioAtLeast(score, fullMark, 90) THEN "A"
    ELSE IF ScoreRatioAtLeast(score, fullMark, 85) THEN "A-"
    ELSE IF ScoreRatioAtLeast(score, fullMark, 80) THEN "B+"
    ELSE IF ScoreRatioAtLeast(score, fullMark, 75) THEN "B"
    ELSE IF ScoreRatioAtLeast(score, fullMark, 70) THEN "B-"
    ELSE IF ScoreRatioAtLeast(score, fullMark, 60) THEN "C"
    ELSE "D"

\* Percentiles are given in hundredths, from -PercentMargin to
\* 100 + PercentMargin
PercentMargin == 3

Percents == (-PercentMargin)..(100 + PercentMargin)

\* The highest raw score graded
MaxRawScore == 455

FullMarks == {-100, 0, 100, 150, 450}

InitGrade ==
    /\ DashboardIdle
    /\ call \in {[op |-> "gradePercentile", p |-> Ratio(a, 100), q |-> Ratio(b, 100),
                    done |-> FALSE, ret |-> NoRet] :
                        a \in Percents, b \in Percents}
              \cup {[op |-> "gradeRaw", score |-> sc, fullMark |-> fm,
                    done |-> FALSE, ret |-> NoRet] :
                        sc \in (-2)..MaxRawScore, fm \in FullMarks}

\* getGradeFromPercentile applied to two percentiles
GradePercentiles ==
    /\ Pending("gradePercentile")
    /\ call' = [call EXCEPT !.done = TRUE,
                            !.ret = [p |-> getGradeFromPercentile(call.p),
                                     q |-> getGradeFromPercentile(call.q)]]
    /\ DashboardUnchanged

\* getGradeAttributes applied to a raw score and a full mark
GradeRawScore ==
    /\ Pending("gradeRaw")
    /\ call' = [call EXCEPT !.done = TRUE,
                            !.ret = getGradeAttributes(call.score, call.fullMark)]
    /\ DashboardUnchanged

NextGrade == GradePercentiles \/ GradeRawScore

SpecGrade == InitGrade /\ [][NextGrade]_vars

---------------------------------------------------------------------------
(* Pass tallies as a call *)

\* The longest list of values tallied, Scenario B apart
MaxPassValues == 3

PassValues == {59, 60, 85, 89, 90, 127, 128, 270, 383}

ScenarioB == <<60, 70, 80, 90, 95>>

N_PE == <<"P", "E">>

\* Column names with the full marks 0, 100, 150 and 450
PassColumnNames == {N_Total, N_PE, N_yuwen, S_yushuying}

InitPass ==
    /\ DashboardIdle
    /\ call \in {[op |-> "passStats", values |-> vs, colName |-> cn,
                    done |-> FALSE, ret |-> NoRet] :
                        vs \in SeqsOf(PassValues, 0, MaxPassValues) \cup {ScenarioB},
                        cn \in PassColumnNames}

\* calculatePassStats applied to a list of values and a column name
TallyPassStats ==
    /\ Pending("passStats")
    /\ call' = [call EXCEPT !.done = TRUE,
                            !.ret = calculatePassStats(call.values, call.colName)]
    /\ DashboardUnchanged

NextPass == TallyPassStats

SpecPass == InitPass /\ [][NextPass]_vars

---------------------------------------------------------------------------
(* Histogram *)

\* Values of the distribution functions are multiples of 1 / Scale: the
\* integer v stands for the number v / Scale.
Scale == 2

UnclampedBinIndex(v, min, width, binCount) ==
    FloorDiv((v - min * Scale) * binCount, Scale * width)

\* Math.min(Math.floor((v - min) / binSize), binCount - 1) for the value
\* v / Scale and binSize = width / binCount
BinIndex(v, min, width, binCount) ==
    Min2(FloorDiv((v - min * Scale) * binCount, Scale * width), binCount - 1)

\* generateHistogramData(values, binCount): the bins in order.  A bin's min
\* and max are rationals; its range label is the pair of their floors.
generateHistogramData(values, binCount) ==
    IF Len(values) = 0 THEN <<>>
    ELSE LET min   == FloorDiv(MinOf(values), Scale)
             max   == CeilDiv(MaxOf(values), Scale)
             range == max - min
             \* binSize = Math.max(range / binCount, 1) = width / binCount
             width == Max2(range, binCount)
         IN  [k \in 1..binCount |->
                LET i == k - 1
                IN  [range |-> <<FloorDiv(min * binCount + i * width, binCount),
                                 FloorDiv(min * binCount + (i + 1) * width, binCount)>>,
                     min   |-> Ratio(min * binCount + i * width, binCount),
                     max   |-> Ratio(min * binCount + (i + 1) * width, binCount),
                     count |-> Cardinality({j \in DOMAIN values :
                                  LET binIndex == BinIndex(values[j], min, width, binCount)
                                  IN  binIndex >= 0 /\ binIndex = i})]]

\* The longest series binned
MaxHistLen == 3

\* The largest value binned, in units of 1 / Scale
MaxHistValue == 9

\* The largest bin count
MaxBins == 4

HistValues == (-3)..MaxHistValue

InitHist ==
    /\ DashboardIdle
    /\ call \in {[op |-> "histogram", values |-> vs, binCount |-> bc,
                    done |-> FALSE, ret |-> NoRet] :
                        vs \in SeqsOf(HistValues, 0, MaxHistLen), bc \in 1..MaxBins}

\* generateHistogramData applied to a series and a bin count
BinValues ==
    /\ Pending("histogram")
    /\ call' = [call EXCEPT !.done = TRUE,
                            !.ret = generateHistogramData(call.values, call.binCount)]
    /\ DashboardUnchanged

NextHist == BinValues

SpecHist == InitHist /\ [][NextHist]_vars

---------------------------------------------------------------------------
(* Box plot *)

\* x || fallback, where x is an array element read at a position that may be
\* past the end: undefined and 0 are both falsy
OrElse(arr, pos, fallback) ==
    IF pos \in DOMAIN arr /\ arr[pos] # 0 THEN arr[pos] ELSE fallback

\* The quartiles read one position too high when n is not a multiple of 4
BoxPlotStatsCeilingPositions(values) ==
    LET sorted == SortAscending(values)
        n      == Len(sorted)
        q1     == sorted[Min2(CeilDiv(n, 4), n - 1) + 1]
        median == sorted[Min2(CeilDiv(n, 2), n - 1) + 1]
        q3     == sorted[Min2(CeilDiv(3 * n, 4), n - 1) + 1]
        iqr    == q3 - q1
        InBounds(v) == 2 * v >= 2 * q1 - 3 * iqr /\ 2 * v <= 2 * q3 + 3 * iqr
        validValues == SelectSeq(sorted, InBounds)
        outliers    == SelectSeq(sorted, LAMBDA v : ~InBounds(v))
    IN  [min      |-> OrElse(validValues, 1, q1),
         q1       |-> q1,
         median   |-> median,
         q3       |-> q3,
         max      |-> OrElse(validValues, Len(validValues), q3),
         outliers |-> outliers]

\* calculateBoxPlotStats(values) for a non-empty array.  1.5 * iqr is kept
\* exact by doubling both sides of the bound tests.
calculateBoxPlotStats(values) ==
    LET sorted    == BoxPlotArrays(values).sorted
        q1Pos     == FloorDiv(Len(sorted), 4)
        medianPos == FloorDiv(Len(sorted), 2)
        q3Pos     == FloorDiv(3 * Len(sorted), 4)
        q1        == sorted[q1Pos + 1]
        median    == sorted[medianPos + 1]
        q3        == sorted[q3Pos + 1]
        iqr       == q3 - q1
        InBounds(v) == 2 * v >= 2 * q1 - 3 * iqr /\ 2 * v <= 2 * q3 + 3 * iqr
        OutOfBounds(v) == 2 * v < 2 * q1 - 3 * iqr \/ 2 * v > 2 * q3 + 3 * iqr
        validValues == SelectSeq(sorted, InBounds)
        outliers    == SelectSeq(sorted, OutOfBounds)
    IN  [min      |-> OrElse(validValues, 1, q1),
         q1       |-> q1,
         median   |-> median,
         q3       |-> q3,
         max      |-> OrElse(validValues, Len(validValues), q3),
         outliers |-> outliers]

\* The longest list of values summarised, Scenario D apart
MaxBoxLen == 4

BoxValues == {-2, -1, 0, 1, 2, 3, 100}

ScenarioD == <<1, 2, 3, 4, 5, 100>>

InitBox ==
    /\ DashboardIdle
    /\ call \in {[op |-> "boxPlot", values |-> vs, done |-> FALSE, ret |-> NoRet] :
                    vs \in SeqsOf(BoxValues, 1, MaxBoxLen) \cup {ScenarioD}}

\* calculateBoxPlotStats applied to one class's scores (ClassBoxPlot.stats)
SummariseBox ==
    /\ Pending("boxPlot")
    /\ call' = [call EXCEPT !.done = TRUE, !.ret = calculateBoxPlotStats(call.values)]
    /\ DashboardUnchanged

NextBox == SummariseBox

SpecBox == InitBox /\ [][NextBox]_vars

---------------------------------------------------------------------------
(* C1 *)

ExclusionMarkers == {S_hao, S_id, S_ci, S_rank, S_banji, S_xingming, S_name}

HasExclusionMarker(name) ==
    \E m \in ExclusionMarkers : Includes(ToLowerCase(name), m)

HoldsNumber(c) == c.t = "number" \/ (c.t = "string" /\ ~ParseFloat(c.s).nan)

NumericRows(sh, i) == {r \in DOMAIN sh.rows : HoldsNumber(sh.rows[r][i])}

IsReturned(cols, i) == \E k \in DOMAIN cols : cols[k].index = i - 1

\* C1: getNumericColumns returns a NumericColumn for a column if and only if
\* its name contains no exclusion marker (case-insensitively), strictly more
\* than half of the rows hold a numeric cell in it, and at least one numeric
\* value was collected.
C1_ClassifyIff ==
    numericCols.ready =>
        \A i \in DOMAIN sheet.columns :
            IsReturned(numericCols.cols, i) <=>
                /\ ~HasExclusionMarker(sheet.columns[i])
                /\ 2 * Cardinality(NumericRows(sheet, i)) > Len(sheet.rows)
                /\ Cardinality(NumericRows(sheet, i)) > 0

\* A sheet of two rows whose first column is returned, and whose second
\* column has no marker and exactly one numeric row, and is not returned.
C1_Witness ==
    /\ numericCols.ready
    /\ Len(sheet.rows) = 2
    /\ IsReturned(numericCols.cols, 1)
    /\ ~HasExclusionMarker(sheet.columns[2])
    /\ Cardinality(NumericRows(sheet, 2)) = 1
    /\ ~IsReturned(numericCols.cols, 2)

---------------------------------------------------------------------------
(* C8 *)

\* C8: no caller applies pass tallies or score bands with a full mark <= 0:
\* every call PassRateChart makes to calculatePassStats and every call
\* ScoreHeatmap makes to calculateScoreBuckets that classifies at least one
\* score uses a full mark > 0.
C8_CallersUsePositiveFullMark ==
    /\ \A k \in DOMAIN passRate.calls : passRate.calls[k].fullMark > 0
    /\ \A c \in heatmap.calls : Len(c.scores) > 0 => c.fullMark > 0

---------------------------------------------------------------------------
(* C2, C3 *)

IsDescending(s) == \A i \in 1..(Len(s) - 1) : s[i] >= s[i + 1]

IsPermutation(s, t) ==
    /\ Len(s) = Len(t)
    /\ \A v \in {s[i] : i \in DOMAIN s} \cup {t[i] : i \in DOMAIN t} :
          Cardinality({i \in DOMAIN s : s[i] = v}) = Cardinality({i \in DOMAIN t : t[i] = v})

\* C2: the population the callers rank against is the column's values in
\* descending order, and for a non-empty population the rank is i + 1 for the
\* first 0-based position i whose element the score reaches, which is one
\* more than the number of strictly greater elements (ties share the best
\* rank), and the population's length when the score is below every element.
C2_RankIsFirstMatch ==
    (Returned("rank") /\ call.values # <<>>) =>
        LET pop  == call.ret.sortedValues
            rank == call.ret.stats.rank
        IN  /\ IsDescending(pop)
            /\ IsPermutation(pop, call.values)
            /\ IF \E i \in DOMAIN pop : call.score >= pop[i]
               THEN /\ call.score >= pop[rank]
                    /\ \A j \in 1..(rank - 1) : call.score < pop[j]
                    /\ rank = 1 + Cardinality({j \in DOMAIN pop : pop[j] > call.score})
               ELSE rank = Len(pop)

\* Scenario A: population [100, 90, 90, 70] and score 90 give rank 2, total 4
C2_Witness ==
    /\ Returned("rank")
    /\ call.values = <<90, 70, 100, 90>>
    /\ call.ret.sortedValues = <<100, 90, 90, 70>>
    /\ call.score = 90
    /\ call.ret.stats.rank = 2
    /\ call.ret.stats.total = 4

\* C3: total is the population's length; the percentile is
\* (total - rank) / (total - 1) when total > 1, 1 when total = 1, and the
\* record is all zero for the empty population; so for a non-empty
\* population the percentile lies in [0, 1], is 1 exactly for rank 1 and,
\* when total > 1, 0 exactly for rank = total.
C3_Percentile ==
    Returned("rank") =>
        LET st == call.ret.stats
            p  == st.percentile
            n  == Len(call.ret.sortedValues)
        IN  /\ st.total = n
            /\ p.den > 0
            /\ n = 0 => (st.rank = 0 /\ p.num = 0)
            /\ n = 1 => p.num = p.den
            /\ n > 1 => p.num * (n - 1) = (n - st.rank) * p.den
            /\ n > 0 => /\ 0 <= p.num /\ p.num <= p.den
                        /\ (p.num = p.den) <=> (st.rank = 1)
            /\ n > 1 => ((p.num = 0) <=> (st.rank = n))

\* A population of four in which the score is ranked third: percentile 1/3
C3_Witness ==
    /\ Returned("rank")
    /\ call.ret.stats.total = 4
    /\ call.ret.stats.rank = 3
    /\ 3 * call.ret.stats.percentile.num = call.ret.stats.percentile.den

---------------------------------------------------------------------------
(* C4, C5 *)

GradeLabels == <<"A+", "A", "A-", "B+", "B", "B-", "C", "D">>

\* The position of a label in GradeLabels: 1 is the best grade
GradeOrder(label) == CHOOSE i \in DOMAIN GradeLabels : GradeLabels[i] = label

\* The lower cutoff of each percentile grade, in hundredths; D has none
PercentileCutoffs == <<95, 85, 70, 50, 30, 15, 5>>

\* The label the cutoffs cs give to a / b (b > 0): the first label whose
\* cutoff a / b reaches, D when it reaches none
LabelByCutoffs(cs, a, b) ==
    LET reached == {i \in DOMAIN cs : 100 * a >= cs[i] * b}
    IN  IF reached = {} THEN "D"
        ELSE GradeLabels[CHOOSE i \in reached : \A j \in reached : i <= j]

C5_RawGradeIsPercentileGrade ==
    Returned("gradeRaw") =>
        IF call.fullMark > 0
        THEN call.ret = getGradeFromPercentile(Ratio(call.score, call.fullMark))
        ELSE call.ret = "null"

\* The lower cutoff of each raw-score grade, in hundredths; D has none
RawScoreCutoffs == <<95, 90, 85, 80, 75, 70, 60>>

\* C5 as amended: for fullMark > 0, getGradeAttributes returns the label
\* given by its own cutoffs 0.95, 0.90, 0.85, 0.80, 0.75, 0.70, 0.60 applied to
\* score / fullMark, first match from high to low; for fullMark <= 0 it
\* returns null.
C5_RawGradeOwnCutoffs ==
    Returned("gradeRaw") =>
        IF call.fullMark > 0
        THEN call.ret = LabelByCutoffs(RawScoreCutoffs, call.score, call.fullMark)
        ELSE call.ret = "null"

\* 120 of 150 is exactly 0.80: B+ by the code's cutoffs, where the percentile
\* cutoffs would give A-
C5_Witness ==
    /\ Returned("gradeRaw")
    /\ call.score = 120 /\ call.fullMark = 150
    /\ call.ret = "B+"
    /\ getGradeFromPercentile(Ratio(call.score, call.fullMark)) = "A-"

---------------------------------------------------------------------------
(* C6, C7 *)

CountWhere(values, P(_)) == Cardinality({i \in DOMAIN values : P(values[i])})

\* C6: for every list of values and every full mark > 0, calculatePassStats
\* counts each value in exactly one tally: excellent iff value >= 0.85 *
\* fullMark, pass iff 0.60 * fullMark <= value < 0.85 * fullMark, fail iff
\* value < 0.60 * fullMark; the three tallies sum to total, the number of
\* values.
C6_PassStatsPartition ==
    (Returned("passStats") /\ getFullMark(call.colName) > 0) =>
        LET fm == getFullMark(call.colName)
            IsExcellent(v) == 100 * v >= 85 * fm
            IsPass(v)      == 60 * fm <= 100 * v /\ 100 * v < 85 * fm
            IsFail(v)      == 100 * v < 60 * fm
        IN  /\ call.ret.excellent = CountWhere(call.values, IsExcellent)
            /\ call.ret.pass = CountWhere(call.values, IsPass)
            /\ call.ret.fail = CountWhere(call.values, IsFail)
            /\ call.ret.total = Len(call.values)
            /\ call.ret.excellent + call.ret.pass + call.ret.fail = call.ret.total

\* Full mark 150: 128 is excellent (>= 127.5), 90 passes, 89 fails
C6_Witness ==
    /\ Returned("passStats")
    /\ getFullMark(call.colName) = 150
    /\ call.values = <<89, 90, 128>>
    /\ call.ret = [excellent |-> 1, pass |-> 1, fail |-> 1, total |-> 3]

\* C7 as claimed: values [60, 70, 80, 90, 95] with full mark 100 give
\* excellent 1, pass 3, fail 1, total 5.
C7_ScenarioBAsClaimed ==
    (Returned("passStats") /\ call.values = ScenarioB /\ getFullMark(call.colName) = 100) =>
        call.ret = [excellent |-> 1, pass |-> 3, fail |-> 1, total |-> 5]

\* C7 as amended: values [60, 70, 80, 90, 95] with full mark 100 give
\* excellent 2 (90 and 95), pass 3 (60, 70 and 80), fail 0, total 5.
C7_ScenarioB ==
    (Returned("passStats") /\ call.values = ScenarioB /\ getFullMark(call.colName) = 100) =>
        call.ret = [excellent |-> 2, pass |-> 3, fail |-> 0, total |-> 5]

C7_Witness ==
    /\ Returned("passStats")
    /\ call.values = ScenarioB
    /\ call.colName = N_PE
    /\ getFullMark(call.colName) = 100
    /\ call.ret.total = 5

---------------------------------------------------------------------------
(* C9 *)

\* floor and ceiling of the number v / Scale
Magnitude(v) == IF v >= 0 THEN v + 1 ELSE 1 - v

FloorOf(v) ==
    CHOOSE k \in (-Magnitude(v))..Magnitude(v) : k * Scale <= v /\ v < (k + 1) * Scale

CeilingOf(v) ==
    CHOOSE k \in (-Magnitude(v))..Magnitude(v) : (k - 1) * Scale < v /\ v <= k * Scale

---------------------------------------------------------------------------
(* C10 *)

\* The values of s within [q1 - 1.5 * (q3 - q1), q3 + 1.5 * (q3 - q1)]
WithinFences(s, q1, q3) ==
    {s[i] : i \in {j \in DOMAIN s :
        2 * s[j] >= 2 * q1 - 3 * (q3 - q1) /\ 2 * s[j] <= 2 * q3 + 3 * (q3 - q1)}}

\* C10: for a non-empty list, the reported min and max are the smallest and
\* the largest of the values within the fences whenever a value lies within
\* them, and q1 and q3 only when none does; this also holds when the
\* smallest or largest such value is 0.
C10_MinMaxAreInBoundExtremes ==
    Returned("boxPlot") =>
        LET inside == WithinFences(call.values, call.ret.q1, call.ret.q3)
        IN  IF inside # {}
            THEN /\ call.ret.min \in inside /\ \A v \in inside : call.ret.min <= v
                 /\ call.ret.max \in inside /\ \A v \in inside : call.ret.max >= v
            ELSE call.ret.min = call.ret.q1 /\ call.ret.max = call.ret.q3

---------------------------------------------------------------------------
(* C11 *)

IsAscending(s) == \A i \in 1..(Len(s) - 1) : s[i] <= s[i + 1]

\* The element of the ascending list s at the 0-based position floor(n * q),
\* q = num / 4: the position p with 4 * p <= num * n < 4 * (p + 1)
AtQuartilePosition(s, num, x) ==
    \E p \in 0..(Len(s) - 1) :
        /\ 4 * p <= num * Len(s)
        /\ num * Len(s) < 4 * (p + 1)
        /\ x = s[p + 1]

Occurrences(s, v) == Cardinality({i \in DOMAIN s : s[i] = v})

\* C11: for a non-empty list of n values, q1, median and q3 are the elements
\* at the 0-based positions floor(n/4), floor(n/2) and floor(3n/4) of the
\* ascending sort of the values; outliers holds every value below
\* q1 - 1.5 * (q3 - q1) or above q3 + 1.5 * (q3 - q1) as often as it occurs
\* in the values and nothing else; no outlier lies within [min, max]; and
\* [1,2,3,4,5,100] gives outliers [100], min 1 and max 5.
C11_QuartilesAndOutliers ==
    Returned("boxPlot") =>
        LET r == call.ret
            IsOutside(v) == 2 * v < 2 * r.q1 - 3 * (r.q3 - r.q1)
                            \/ 2 * v > 2 * r.q3 + 3 * (r.q3 - r.q1)
        IN  /\ \E s \in {SortAscending(call.values)} :
                  /\ IsAscending(s) /\ IsPermutation(s, call.values)
                  /\ AtQuartilePosition(s, 1, r.q1)
                  /\ AtQuartilePosition(s, 2, r.median)
                  /\ AtQuartilePosition(s, 3, r.q3)
            /\ \A v \in {call.values[i] : i \in DOMAIN call.values} :
                  Occurrences(r.outliers, v) =
                      IF IsOutside(v) THEN Occurrences(call.values, v) ELSE 0
            /\ \A i \in DOMAIN r.outliers :
                  /\ r.outliers[i] \in {call.values[j] : j \in DOMAIN call.values}
                  /\ ~(r.min <= r.outliers[i] /\ r.outliers[i] <= r.max)
            /\ call.values = ScenarioD =>
                  r.outliers = <<100>> /\ r.min = 1 /\ r.max = 5

\* Scenario D summarised
C11_Witness ==
    /\ Returned("boxPlot")
    /\ call.values = ScenarioD
    /\ call.ret.outliers = <<100>>
    /\ call.ret.q1 = 2 /\ call.ret.median = 4 /\ call.ret.q3 = 5

---------------------------------------------------------------------------
(* Correlation and regression *)

Abs(a) == IF a < 0 THEN -a ELSE a

Sign(a) == IF a > 0 THEN 1 ELSE IF a < 0 THEN -1 ELSE 0

RECURSIVE Gcd(_, _)
Gcd(a, b) == IF b = 0 THEN Abs(a) ELSE Gcd(b, a % Abs(b))

\* JavaScript numbers that are not finite
NotANumber == [kind |-> "NaN", num |-> 0, den |-> 1]

PlusInfinity == [kind |-> "Infinity", num |-> 0, den |-> 1]

MinusInfinity == [kind |-> "-Infinity", num |-> 0, den |-> 1]

\* a / b: the fraction in lowest terms with a positive denominator, and
\* Infinity, -Infinity or NaN when b is 0
Quotient(a, b) ==
    IF b = 0
    THEN IF a > 0 THEN PlusInfinity ELSE IF a < 0 THEN MinusInfinity ELSE NotANumber
    ELSE LET g == Gcd(a, b)
         IN  [kind |-> "finite", num |-> (Sign(b) * a) \div g, den |-> Abs(b) \div g]

\* sumX, sumXY, sumX2 of the loops "for (let i = 0; i < n; i++)"
\* (the index range is halved to keep the evaluation shallow on long series)
RECURSIVE SumProductsIn(_, _, _, _)
SumProductsIn(x, y, lo, hi) ==
    IF lo > hi THEN 0
    ELSE IF lo = hi THEN x[lo] * y[lo]
    ELSE LET mid == (lo + hi) \div 2
         IN  SumProductsIn(x, y, lo, mid) + SumProductsIn(x, y, mid + 1, hi)

SumProducts(x, y, n) == SumProductsIn(x, y, 1, n)

SumFirst(x, n) == SumProductsIn(x, [i \in 1..n |-> 1], 1, n)

\* The number 0 as calculateCorrelation returns it
ZeroCorrelation == [sign |-> 0, squareNum |-> 0, squareDen |-> 1]

\* numerator / radicand, the square root left out
QuotientWithoutRoot(numerator, radicand) ==
    LET g == Gcd(numerator, radicand * radicand)
    IN  [sign      |-> Sign(numerator),
         squareNum |-> numerator \div g,
         squareDen |-> (radicand * radicand) \div g]

\* numerator / Math.sqrt(radicand) for radicand > 0: the number is kept as
\* its sign and its square, numerator^2 / radicand, in lowest terms
RootQuotient(numerator, radicand) ==
    LET g == Gcd(numerator * numerator, radicand)
    IN  [sign      |-> Sign(numerator),
         squareNum |-> (numerator * numerator) \div g,
         squareDen |-> radicand \div g]

\* The variance of x taken for both series
CorrelationXVarianceOnly(x, y) ==
    LET n == Min2(Len(x), Len(y))
        sumX  == SumFirst(x, n)
        sumY  == SumFirst(y, n)
        sumXY == SumProducts(x, y, n)
        sumX2 == SumProducts(x, x, n)
        numerator == n * sumXY - sumX * sumY
        radicand  == (n * sumX2 - sumX * sumX) * (n * sumX2 - sumX * sumX)
    IN  IF n = 0 THEN ZeroCorrelation
        ELSE IF radicand = 0 THEN ZeroCorrelation
        ELSE RootQuotient(numerator, radicand)

\* calculateCorrelation(x, y); Math.sqrt(radicand) === 0 exactly when
\* radicand is 0
calculateCorrelation(x, y) ==
    LET n == Min2(Len(x), Len(y))
        sumX  == SumFirst(x, n)
        sumY  == SumFirst(y, n)
        sumXY == SumProducts(x, y, n)
        sumX2 == SumProducts(x, x, n)
        sumY2 == SumProducts(y, y, n)
        numerator == n * sumXY - sumX * sumY
        radicand  == (n * sumX2 - sumX * sumX) * (n * sumY2 - sumY * sumY)
    IN  IF n = 0 THEN ZeroCorrelation
        ELSE IF radicand = 0 THEN ZeroCorrelation
        ELSE RootQuotient(numerator, radicand)

\* null, as calculateLinearRegression returns it
NoRegression ==
    [isNull |-> TRUE, slope |-> NotANumber, intercept |-> NotANumber, rSquared |-> NotANumber]

\* sumY - slope * sumX, the division by n left out
InterceptUndivided(n, sumX, sumY, p, q) == Quotient(sumY * q - p * sumX, q)

\* (sumY - slope * sumX) / n for the finite slope p / q
InterceptOf(n, sumX, sumY, p, q) == Quotient(sumY * q - p * sumX, n * q)

\* totalSS * n^2: the sum of (y[i] - yMean) ** 2 with yMean = sumY / n
TotalSquares(y, n, sumY, i) ==
    LET d == [k \in 1..i |-> n * y[k] - sumY]
    IN  SumProductsIn(d, d, 1, i)

\* resSS * (n * q)^2: the sum of (y[i] - predicted) ** 2 with
\* predicted = slope * x[i] + intercept, slope = p / q and
\* intercept = c / (n * q)
ResidualSquares(x, y, n, p, q, c, i) ==
    LET d == [k \in 1..i |-> n * q * y[k] - n * p * x[k] - c]
    IN  SumProductsIn(d, d, 1, i)

\* 1 - (resSS / totalSS), with resSS = r / (n * q)^2 and totalSS = t / n^2:
\* 0 / 0 is NaN and a positive number over 0 is Infinity
RSquaredOf(r, t, q) ==
    IF t = 0 THEN (IF r = 0 THEN NotANumber ELSE MinusInfinity)
    ELSE Quotient(q * q * t - r, q * q * t)

\* The body of calculateLinearRegression after the guard on n.  With
\* q = n * sumX2 - sumX * sumX = 0 the x[i] are all equal, so p is 0 too and
\* the slope is 0 / 0 = NaN, which the intercept and rSquared inherit.
RegressionFit(x, y, n) ==
    LET sumX  == SumFirst(x, n)
        sumY  == SumFirst(y, n)
        sumXY == SumProducts(x, y, n)
        sumX2 == SumProducts(x, x, n)
        p == n * sumXY - sumX * sumY
        q == n * sumX2 - sumX * sumX
        c == sumY * q - p * sumX
    IN  IF q = 0
        THEN [isNull |-> FALSE, slope |-> Quotient(p, q),
              intercept |-> NotANumber, rSquared |-> NotANumber]
        ELSE [isNull    |-> FALSE,
              slope     |-> Quotient(p, q),
              intercept |-> InterceptOf(n, sumX, sumY, p, q),
              rSquared  |-> RSquaredOf(ResidualSquares(x, y, n, p, q, c, n),
                                       TotalSquares(y, n, sumY, n), q)]

\* The guard reads n < 1
RegressionFromOnePoint(x, y) ==
    LET n == Min2(Len(x), Len(y))
    IN  IF n < 1 THEN NoRegression ELSE RegressionFit(x, y, n)

\* calculateLinearRegression(x, y)
calculateLinearRegression(x, y) ==
    LET n == Min2(Len(x), Len(y))
    IN  IF n < 2 THEN NoRegression ELSE RegressionFit(x, y, n)

\* The longest series correlated or regressed, Scenario C apart
MaxSeriesLen == 3

SeriesValues == {-1, 0, 1, 3}

ScenarioC == [x |-> <<1, 2, 3, 4, 5>>, y |-> <<2, 4, 6, 8, 10>>]

SeriesPairs ==
    {[x |-> a, y |-> b] : a, b \in SeqsOf(SeriesValues, 0, MaxSeriesLen)} \cup {ScenarioC}

InitPair ==
    /\ DashboardIdle
    /\ call \in {[op |-> o, x |-> s.x, y |-> s.y, done |-> FALSE, ret |-> NoRet] :
                    o \in {"correlate", "regress"}, s \in SeriesPairs}

\* calculateCorrelation applied to two columns' values
Correlate ==
    /\ Pending("correlate")
    /\ call' = [call EXCEPT !.done = TRUE, !.ret = calculateCorrelation(call.x, call.y)]
    /\ DashboardUnchanged

\* calculateLinearRegression applied to two columns' values
Regress ==
    /\ Pending("regress")
    /\ call' = [call EXCEPT !.done = TRUE, !.ret = calculateLinearRegression(call.x, call.y)]
    /\ DashboardUnchanged

NextPair == Correlate \/ Regress

SpecPair == InitPair /\ [][NextPair]_vars

---------------------------------------------------------------------------
(* C12, C13, C14, C15 *)

\* The first n values of s are all equal
ConstantPrefix(s, n) == \A i, j \in 1..n : s[i] = s[j]

\* The number 1 as calculateCorrelation returns it
OneCorrelation == [sign |-> 1, squareNum |-> 1, squareDen |-> 1]

\* C12: for all series x and y, calculateCorrelation(x, y) is the number
\* calculateCorrelation(y, x).
C12_CorrelationSymmetric ==
    Returned("correlate") => call.ret = calculateCorrelation(call.y, call.x)

\* Two series of different lengths, correlated over the shorter length
C12_Witness ==
    /\ Returned("correlate")
    /\ call.x = <<0, 3>>
    /\ call.y = <<1, -1, 3>>
    /\ call.ret.sign = -1

OnLineThrough(x, y, n, i, j) ==
    /\ x[i] # x[j]
    /\ y[i] # y[j]
    /\ \A k \in 1..n : (y[k] - y[i]) * (x[j] - x[i]) = (y[j] - y[i]) * (x[k] - x[i])

---------------------------------------------------------------------------
(* Downsampling *)

\* Every index kept when index % step reads index % 1
KeepsEveryIndex(index, n, limit) == index % 1 = 0

\* Every other index kept, whatever the limit
KeepsEvenIndex(index, n, limit) == index % 2 = 0

\* index % step === 0 with step = Math.ceil(n / limit) for n > limit.  For
\* limit = 0 the step is Infinity and index % Infinity is index; for
\* limit < 0 the step is -floor(n / -limit), the remainder has the sign of
\* the index, and a step of -0 gives NaN for every index.
KeepsIndex(index, n, limit) ==
    IF limit > 0 THEN index % CeilDiv(n, limit) = 0
    ELSE IF limit = 0 THEN index = 0
    ELSE LET m == n \div (-limit)
         IN  m # 0 /\ index % m = 0

\* data.filter((_, index) => index % step === 0) over the 0-based indices
\* lo..hi, in index order (the range is halved to keep the evaluation shallow)
RECURSIVE FilterByStep(_, _, _, _)
FilterByStep(data, limit, lo, hi) ==
    IF lo > hi THEN <<>>
    ELSE IF lo = hi
         THEN (IF KeepsIndex(lo, Len(data), limit) THEN <<data[lo + 1]>> ELSE <<>>)
         ELSE LET mid == (lo + hi) \div 2
              IN  FilterByStep(data, limit, lo, mid) \o FilterByStep(data, limit, mid + 1, hi)

\* downsampleData(data, limit)
downsampleData(data, limit) ==
    IF Len(data) <= limit THEN data ELSE FilterByStep(data, limit, 0, Len(data) - 1)

\* The longest series downsampled, Scenario E apart
MaxDataLen == 6

\* The highest limit, Scenario E apart
MaxLimit == 7

DataValues == {0, 1}

\* A series of n distinct elements, each element its own index
Indexed(n) == [i \in 1..n |-> i - 1]

ScenarioE == [data |-> Indexed(1000), limit |-> 500]

DownsampleInputs ==
    {[data |-> d, limit |-> k] :
        d \in SeqsOf(DataValues, 0, MaxDataLen) \cup {Indexed(n) : n \in 0..(2 * MaxDataLen)},
        k \in (-3)..MaxLimit}
    \cup {ScenarioE}

InitDown ==
    /\ DashboardIdle
    /\ call \in {[op |-> "downsample", data |-> s.data, limit |-> s.limit,
                  done |-> FALSE, ret |-> NoRet, again |-> NoRet] : s \in DownsampleInputs}

\* downsampleData applied to the points of a chart
Downsample ==
    /\ Pending("downsample")
    /\ call' = [call EXCEPT !.done = TRUE, !.ret = downsampleData(call.data, call.limit)]
    /\ DashboardUnchanged

\* downsampleData applied to what it returned, with the same limit
DownsampleAgain ==
    /\ Returned("downsample")
    /\ call.again = NoRet
    /\ call' = [call EXCEPT !.again = [none |-> FALSE, data |-> downsampleData(call.ret, call.limit)]]
    /\ DashboardUnchanged

NextDown == Downsample \/ DownsampleAgain

SpecDown == InitDown /\ [][NextDown]_vars

---------------------------------------------------------------------------
(* C16, C17 *)

\* step = ceil(n / limit) for limit >= 1: the integer with
\* (step - 1) * limit < n <= step * limit
IsCeilingStep(step, n, limit) == (step - 1) * limit < n /\ n <= step * limit

\* t holds exactly the elements of s at the 0-based indices divisible by
\* step, in the order of s
IsStrideSample(t, s, step) ==
    /\ Len(t) = Cardinality({i \in 0..(Len(s) - 1) : i % step = 0})
    /\ \A k \in DOMAIN t : t[k] = s[(k - 1) * step + 1]

\* C16: for every series of length n and every limit >= 1, downsampleData
\* returns the series unchanged when n <= limit, and otherwise exactly the
\* elements at the indices divisible by step = ceil(n / limit), in order; the
\* result has at most limit elements and keeps the element at index 0; a
\* series of length 1000 with limit 500 gives the 500 elements at the even
\* indices.
C16_Downsample ==
    (Returned("downsample") /\ call.limit >= 1) =>
        LET n == Len(call.data)
        IN  /\ n <= call.limit => call.ret = call.data
            /\ n > call.limit =>
                  \E step \in 1..n : /\ IsCeilingStep(step, n, call.limit)
                                     /\ IsStrideSample(call.ret, call.data, step)
            /\ Len(call.ret) <= call.limit
            /\ n > 0 => call.ret # <<>> /\ call.ret[1] = call.data[1]
            /\ (call.data = ScenarioE.data /\ call.limit = ScenarioE.limit) =>
                  call.ret = [k \in 1..500 |-> 2 * (k - 1)]

\* Scenario E downsampled
C16_Witness ==
    /\ Returned("downsample")
    /\ call.data = ScenarioE.data
    /\ call.limit = ScenarioE.limit
    /\ Len(call.ret) = 500
    /\ call.ret[500] = 998

\* C17: for every series s and every limit k, downsampleData applied with k
\* to downsampleData(s, k) returns downsampleData(s, k).
C17_DownsampleIdempotent ==
    (Returned("downsample") /\ call.again # NoRet) => call.again.data = call.ret

\* A series of 12 elements cut to 4 by limit 5, then downsampled again
C17_Witness ==
    /\ Returned("downsample")
    /\ call.again # NoRet
    /\ call.data = Indexed(12)
    /\ call.limit = 5
    /\ call.ret = <<0, 3, 6, 9>>
    /\ call.again.data = <<0, 3, 6, 9>>

---------------------------------------------------------------------------
(* Grouping by class *)

\* The longest sheet grouped, in rows
MaxGroupRows == 2

N_CLASS == <<"C", "L", "A", "S", "S">>

N_1ban == <<"1", "u73ED">>

\* Names of the first column: two class columns and one that is none
GroupFirstColumnNames == {N_1ban, N_CLASS, N_ID}

\* Class cells: missing, a number, a label, a label that is an inherited key
ClassCells == {Null, Num(1), Str(<<"A">>), Str(S_constructor)}

ScoreCells == {Num(50), Num(90), Str(<<"x">>)}

OtherScoreCells == {Num(7), Null}

GroupRowsOf == {<<a, b, c>> : a \in ClassCells, b \in ScoreCells, c \in OtherScoreCells}

GroupSheets ==
    {[columns |-> <<c1, N_yuwen, N_PE>>, rows |-> rs] :
        c1 \in GroupFirstColumnNames, rs \in SeqsOf(GroupRowsOf, 0, MaxGroupRows)}

\* The numeric column descriptors supplied: name and 0-based index
SuppliedColumn(sh, index) == [name |-> sh.columns[index + 1], index |-> index]

SuppliedIndexes == {<<>>, <<1>>, <<1, 2>>, <<2, 1>>}

InitGroup ==
    /\ DashboardIdle
    /\ call \in {[op |-> "groupByClass", sheet |-> sh,
                  cols |-> [k \in DOMAIN ix |-> SuppliedColumn(sh, ix[k])],
                  done |-> FALSE, ret |-> NoRet] :
                    sh \in GroupSheets, ix \in SuppliedIndexes}

\* getGroupedByClass applied to a sheet and numeric columns
GroupByClass ==
    /\ Pending("groupByClass")
    /\ call' = [call EXCEPT !.done = TRUE, !.ret = getGroupedByClass(call.sheet, call.cols)]
    /\ DashboardUnchanged

NextGroup == GroupByClass

SpecGroup == InitGroup /\ [][NextGroup]_vars

---------------------------------------------------------------------------
(* C18, C19 *)

\* The string forms of the class cells of the rows
ClassLabels(sh, classIdx) == {StringOf(sh.rows[r][classIdx]) : r \in DOMAIN sh.rows}

HasClassColumn(sh) ==
    \E i \in DOMAIN sh.columns :
        Includes(sh.columns[i], S_ban) \/ ToLowerCase(sh.columns[i]) = S_class

\* C18: getGroupedByClass returns null iff no column name contains the class
\* marker or equals 'class' case-insensitively; with a class column it
\* returns a map, empty when the sheet has no rows, whose keys are the
\* distinct string forms of the class cells of the rows.
C18_NullIffNoClassColumn ==
    Returned("groupByClass") =>
        /\ call.ret.isNull <=> ~HasClassColumn(call.sheet)
        /\ ~call.ret.isNull =>
              /\ call.sheet.rows = <<>> => DOMAIN call.ret.groups = {}
              /\ DOMAIN call.ret.groups = ClassLabels(call.sheet, FindClassIndex(call.sheet.columns))

\* The numeric cells of column col in the rows of class cls, in row order
RECURSIVE ClassValues(_, _, _, _, _)
ClassValues(sh, classIdx, cls, col, r) ==
    IF r > Len(sh.rows) THEN <<>>
    ELSE LET row == sh.rows[r]
             own == IF StringOf(row[classIdx]) = cls /\ row[col.index + 1].t = "number"
                    THEN <<row[col.index + 1].n>> ELSE <<>>
         IN  own \o ClassValues(sh, classIdx, cls, col, r + 1)

\* C19: with a class column, for every class label of the rows (the label
\* "null" for a null class cell) and every supplied column, the list keyed by
\* (label, column name) is the row-order sequence of the column's numeric
\* cells in the rows of that class, and there is no list when that sequence
\* is empty.
C19_GroupsAreRowOrderSubsequences ==
    (Returned("groupByClass") /\ ~call.ret.isNull) =>
        LET classIdx == FindClassIndex(call.sheet.columns)
        IN  \A cls \in ClassLabels(call.sheet, classIdx) :
                /\ cls \in DOMAIN call.ret.groups
                /\ \A k \in DOMAIN call.cols :
                      LET want == ClassValues(call.sheet, classIdx, cls, call.cols[k], 1)
                          name == call.cols[k].name
                      IN  IF want = <<>> THEN name \notin DOMAIN call.ret.groups[cls]
                          ELSE /\ name \in DOMAIN call.ret.groups[cls]
                               /\ call.ret.groups[cls][name] = want

---------------------------------------------------------------------------
(* Any sequence of calls on the same sheet and arrays *)

\* The longest array passed to the calls
MaxArgLen == 3

ArgValues == {1, 2, 3}

\* A sheet with a class column and a score column, one without a class
\* column, and the empty sheet
EngineSheets ==
    {[columns |-> <<N_banji, N_yuwen>>,
      rows    |-> <<<<Str(<<"B">>), Num(90)>>, <<Str(<<"A">>), Num(50)>>>>],
     [columns |-> <<N_ID, N_yuwen>>,
      rows    |-> <<<<Num(1), Num(90)>>>>],
     EmptySheet}

OtherArrays == {<<>>, <<2, 1>>, <<1, 3, 2>>}

\* given is what the caller passed; sheet, values and other are the same
\* objects as the calls leave them
InitEngine ==
    /\ DashboardIdle
    /\ call \in {[op |-> "engine", given |-> [sheet |-> sh, values |-> vs, other |-> os],
                  sheet |-> sh, values |-> vs, other |-> os,
                  last |-> "none", ret |-> NoRet] :
                    sh \in EngineSheets, vs \in SeqsOf(ArgValues, 0, MaxArgLen),
                    os \in OtherArrays}

\* One more call, op, that returned ret and left the array values as after
Called(op, ret, after) ==
    /\ call.op = "engine"
    /\ call' = [call EXCEPT !.last = op, !.ret = ret, !.values = after]
    /\ DashboardUnchanged

\* getNumericColumns reads sheet.columns and sheet.rows and pushes to arrays
\* of its own
EngineClassify == Called("classify", getNumericColumns(call.sheet), call.values)

\* getGroupedByClass reads the sheet and numericCols and pushes to arrays of
\* its own
EngineGroupByClass ==
    Called("groupByClass", getGroupedByClass(call.sheet, getNumericColumns(call.sheet)),
           call.values)

EnginePassStats ==
    \E colName \in {N_yuwen, N_PE} :
        Called("passStats", calculatePassStats(call.values, colName), call.values)

EngineScoreBuckets ==
    \E fullMark \in {100, 150} :
        Called("scoreBuckets", calculateScoreBuckets(call.values, fullMark), call.values)

EngineHistogram ==
    \E binCount \in {2, 3} :
        Called("histogram", generateHistogramData(call.values, binCount), call.values)

EngineBoxPlot ==
    /\ call.values # <<>>
    /\ Called("boxPlot", calculateBoxPlotStats(call.values), BoxPlotArrays(call.values).argument)

\* DataTable.columnValuesCache and getCellClass: a column's values ranked
EngineRankColumn ==
    \E score \in ArgValues :
        LET arrays == RankArrays(call.values)
        IN  Called("rank", getScoreRankStats(score, arrays.sorted), arrays.argument)

EngineCorrelate ==
    Called("correlate", calculateCorrelation(call.values, call.other), call.values)

EngineRegress ==
    Called("regress", calculateLinearRegression(call.values, call.other), call.values)

EngineDownsample ==
    \E limit \in {1, 2} :
        Called("downsample", downsampleData(call.values, limit), call.values)

NextEngine ==
    \/ EngineClassify
    \/ EngineGroupByClass
    \/ EnginePassStats
    \/ EngineScoreBuckets
    \/ EngineHistogram
    \/ EngineBoxPlot
    \/ EngineRankColumn
    \/ EngineCorrelate
    \/ EngineRegress
    \/ EngineDownsample

SpecEngine == InitEngine /\ [][NextEngine]_vars

---------------------------------------------------------------------------
(* C20 *)

\* C20: after any sequence of calls of getNumericColumns, getGroupedByClass,
\* calculatePassStats, calculateScoreBuckets, generateHistogramData,
\* calculateBoxPlotStats, calculateCorrelation, calculateLinearRegression,
\* downsampleData and of the callers' ranking sort, the sheet and the arrays
\* passed hold the same elements in the same order as when first passed.
C20_InputsUnchanged ==
    call.op = "engine" =>
        /\ call.sheet = call.given.sheet
        /\ call.values = call.given.values
        /\ call.other = call.given.other

\* An array not in ascending order, summarised by calculateBoxPlotStats and
\* still in the order given
C20_Witness ==
    /\ call.op = "engine"
    /\ call.last = "boxPlot"
    /\ call.given.values = <<3, 1, 2>>
    /\ call.values = <<3, 1, 2>>
    /\ call.ret.median = 2

---------------------------------------------------------------------------
(* Full mark of a column name *)

\* The most fragments a column name is made of
MaxFragments == 2

\* Pieces of column names: the words of the three patterns, the same words
\* in another case, and words of no pattern
NameFragments ==
    {S_zongfen, S_Total, <<"t", "o", "t", "a", "l">>, S_yushuying, S_yuwen, S_shuxue,
     S_yingyu, S_English, S_Chinese, S_Math, <<"m", "a", "t", "h">>, N_PE, <<"1">>}

RECURSIVE Flatten(_)
Flatten(parts) == IF parts = <<>> THEN <<>> ELSE Head(parts) \o Flatten(Tail(parts))

FullMarkNames == {Flatten(parts) : parts \in SeqsOf(NameFragments, 0, MaxFragments)}

InitFullMark ==
    /\ DashboardIdle
    /\ call \in {[op |-> "fullMark", colName |-> cn, done |-> FALSE, ret |-> NoRet] :
                    cn \in FullMarkNames}

\* getFullMark applied to a column name
GuessFullMark ==
    /\ Pending("fullMark")
    /\ call' = [call EXCEPT !.done = TRUE, !.ret = getFullMark(call.colName)]
    /\ DashboardUnchanged

NextFullMark == GuessFullMark

SpecFullMark == InitFullMark /\ [][NextFullMark]_vars

---------------------------------------------------------------------------
(* C21 *)

\* The pattern word occurs in name at some offset
Occurs(word, name) ==
    \E i \in 0..(Len(name) - Len(word)) : SubSeq(name, i + 1, i + Len(word)) = word

TotalWords == {S_zongfen, S_Total}

CombinedWords == {S_yushuying}

CoreWords == {S_yuwen, S_shuxue, S_yingyu, S_English, S_Chinese, S_Math}

MatchesAny(words, name) == \E w \in words : Occurs(w, name)

\* C21: getFullMark returns 0 for a name matching the total pattern,
\* otherwise 450 for a name matching the combined pattern, otherwise 150 for
\* a name matching a core-subject pattern, otherwise 100: the first pattern
\* matched decides, and the result is one of 0, 100, 150, 450.
C21_FullMarkByFirstPattern ==
    Returned("fullMark") =>
        /\ call.ret \in {0, 100, 150, 450}
        /\ call.ret = 0   <=> MatchesAny(TotalWords, call.colName)
        /\ call.ret = 450 <=> /\ ~MatchesAny(TotalWords, call.colName)
                              /\ MatchesAny(CombinedWords, call.colName)
        /\ call.ret = 150 <=> /\ ~MatchesAny(TotalWords, call.colName)
                              /\ ~MatchesAny(CombinedWords, call.colName)
                              /\ MatchesAny(CoreWords, call.colName)
        /\ call.ret = 100 <=> /\ ~MatchesAny(TotalWords, call.colName)
                              /\ ~MatchesAny(CombinedWords, call.colName)
                              /\ ~MatchesAny(CoreWords, call.colName)

\* A name matching the combined and the total pattern gets 0
C21_Witness ==
    /\ Returned("fullMark")
    /\ call.colName = S_yushuying \o S_zongfen
    /\ call.ret = 0

---------------------------------------------------------------------------
(* Score bands *)

\* The longest list of values banded
MaxBandValues == 2

\* Scores on and next to the band edges of the full marks 100 and 150
BandValues == {-5, 0, 59, 60, 69, 70, 79, 80, 84, 85, 89, 90, 104, 105, 120, 127, 128, 135, 150}

BandFullMarks == {0, 100, 150}

InitBands ==
    /\ DashboardIdle
    /\ call \in {[op |-> "scoreBuckets", values |-> vs, fullMark |-> fm,
                  done |-> FALSE, ret |-> NoRet] :
                    vs \in SeqsOf(BandValues, 0, MaxBandValues), fm \in BandFullMarks}

\* calculateScoreBuckets applied to a list of scores and a full mark
CountBands ==
    /\ Pending("scoreBuckets")
    /\ call' = [call EXCEPT !.done = TRUE,
                            !.ret = calculateScoreBuckets(call.values, call.fullMark)]
    /\ DashboardUnchanged

NextBands == CountBands

SpecBands == InitBands /\ [][NextBands]_vars

---------------------------------------------------------------------------
(* C22 *)

\* The number of values v with lo% <= v / fullMark < hi%, for fullMark > 0;
\* hi = 0 stands for no upper edge and lo = 0 for no lower edge
CountInBand(values, fullMark, lo, hi) ==
    Cardinality({i \in DOMAIN values :
        /\ lo = 0 \/ 100 * values[i] >= lo * fullMark
        /\ hi = 0 \/ 100 * values[i] < hi * fullMark})

\* C22: for every list of values and every fullMark > 0,
\* calculateScoreBuckets counts each value in exactly one of the six bands
\* by value / fullMark: >= 0.90, [0.85, 0.90), [0.80, 0.85), [0.70, 0.80),
\* [0.60, 0.70), < 0.60; the six counts sum to the number of values.
C22_ScoreBands ==
    (Returned("scoreBuckets") /\ call.fullMark > 0) =>
        LET r  == call.ret
            vs == call.values
            fm == call.fullMark
        IN  /\ DOMAIN r = {"90%~", "85%~90%", "80%~85%", "70%~80%", "60%~70%", "<60%"}
            /\ r["90%~"]    = CountInBand(vs, fm, 90, 0)
            /\ r["85%~90%"] = CountInBand(vs, fm, 85, 90)
            /\ r["80%~85%"] = CountInBand(vs, fm, 80, 85)
            /\ r["70%~80%"] = CountInBand(vs, fm, 70, 80)
            /\ r["60%~70%"] = CountInBand(vs, fm, 60, 70)
            /\ r["<60%"]    = CountInBand(vs, fm, 0, 60)
            /\ r["90%~"] + r["85%~90%"] + r["80%~85%"] + r["70%~80%"] + r["60%~70%"] + r["<60%"]
                   = Len(vs)

\* Two scores on band edges of the full mark 150
C22_Witness ==
    /\ Returned("scoreBuckets")
    /\ call.fullMark = 150
    /\ call.values = <<135, 105>>
    /\ call.ret["90%~"] = 1
    /\ call.ret["70%~80%"] = 1

---------------------------------------------------------------------------
(* RegressionChart.chartData, GeneralScatterChart.chartData,
   StatsDashboard.scoreVsRankData *)

\* The limit each chart passes to downsampleData
ChartLimit(chart) ==
    CASE chart = "RegressionChart"     -> 400
      [] chart = "GeneralScatterChart" -> 2000
      [] chart = "ScoreVsRank"         -> 1000

\* typeof x === 'number' && typeof y === 'number'
IsPairedRow(row) == row[1].t = "number" /\ row[2].t = "number"

PointOf(row) == [x |-> row[1].n, y |-> row[2].n]

\* The loop "for (let i = 0; i < rows.length; i++)" pushing the paired
\* points; rows are projected on the two selected columns
PairUp(rows) ==
    LET paired == SelectSeq(rows, IsPairedRow)
    IN  [i \in DOMAIN paired |-> PointOf(paired[i])]

\* The x values of the points as RegressionChart downsamples them
XsOfScatter(points) ==
    LET scatter == FilterByStep(points, 400, 0, Len(points) - 1)
    IN  [i \in DOMAIN scatter |-> scatter[i].x]

\* points.map(p => p.x) and points.map(p => p.y)
XsOf(points) == [i \in DOMAIN points |-> points[i].x]

YsOf(points) == [i \in DOMAIN points |-> points[i].y]

\* reg.slope * x + reg.intercept
LineY(reg, x) ==
    IF reg.slope.kind = "finite" /\ reg.intercept.kind = "finite"
    THEN Quotient(reg.slope.num * x * reg.intercept.den + reg.intercept.num * reg.slope.den,
                  reg.slope.den * reg.intercept.den)
    ELSE NotANumber

\* const defaultResult = { scatter: [], regression: [], rSquared: 0, ... }
DefaultResult == [scatter |-> <<>>, regression |-> <<>>, rSquared |-> Quotient(0, 1)]

\* "let regressionLine = []; let rSquared = 0; if (reg) { ... }" and the
\* returned object
ChartResult(scatter, reg, xVals) ==
    IF reg.isNull
    THEN [scatter |-> scatter, regression |-> <<>>, rSquared |-> Quotient(0, 1)]
    ELSE [scatter    |-> scatter,
          regression |-> <<[x |-> MinOf(xVals), lineY |-> LineY(reg, MinOf(xVals))],
                           [x |-> MaxOf(xVals), lineY |-> LineY(reg, MaxOf(xVals))]>>,
          rSquared   |-> reg.rSquared]

\* Number(cell) for null, a number, and a string of digits or letters:
\* Number(null) is 0, Number('') is 0, a string with a character that is no
\* digit is NaN
NumberOf(c) ==
    CASE c.t = "null"   -> Finite(0)
      [] c.t = "number" -> Finite(c.n)
      [] c.t = "string" -> IF \A i \in DOMAIN c.s : IsDigit(c.s[i])
                           THEN Finite(DecimalValue(c.s)) ELSE NaN

\* Array.prototype.sort((a, b) => a.rank - b.rank): stable, ascending rank
RECURSIVE SortByRank(_)
SortByRank(data) ==
    IF data = <<>> THEN <<>>
    ELSE LET rest == SortByRank(SubSeq(data, 1, Len(data) - 1))
             d    == data[Len(data)]
             k    == Cardinality({i \in DOMAIN rest : rest[i].rank <= d.rank})
         IN  SubSeq(rest, 1, k) \o <<d>> \o SubSeq(rest, k + 1, Len(rest))

\* sheet.rows.map(...).filter(d => !isNaN(d.score) && !isNaN(d.rank)).sort(...)
ScoreRankData(rows) ==
    LET kept == SelectSeq(rows, LAMBDA row : ~NumberOf(row[1]).nan /\ ~NumberOf(row[2]).nan)
    IN  SortByRank([i \in DOMAIN kept |->
                      [score |-> NumberOf(kept[i][1]).val, rank |-> NumberOf(kept[i][2]).val]])

\* The most rows of a sheet charted, the long sheets apart
MaxChartRows == 2

ChartXCells == {Num(1), Num(2), Null}

ChartYCells == {Num(1), Num(3), Str(<<"5">>), Str(<<"x">>)}

\* A sheet of n rows whose first cells alternate and whose second cells are
\* all equal
LongRows(n) == [i \in 1..n |-> <<Num(1 + (i % 2)), Num(1)>>]

ShortChartRows ==
    SeqsOf({<<a, b>> : a \in ChartXCells, b \in ChartYCells}, 0, MaxChartRows)

\* The long sheets have one row more than the chart's limit
ChartRows(chart) ==
    ShortChartRows \cup (IF chart = "ScoreVsRank" THEN {}
                         ELSE {LongRows(ChartLimit(chart) + 1)})

Charts == {"RegressionChart", "GeneralScatterChart", "ScoreVsRank"}

\* selected: the columns the chart needs were found (no early return)
InitChart ==
    /\ DashboardIdle
    /\ \E ch \in Charts :
          call \in {[op |-> "chartData", chart |-> ch, selected |-> sel, rows |-> rs,
                     pc |-> "start", points |-> <<>>, scatter |-> <<>>,
                     passed |-> [x |-> <<>>, y |-> <<>>], reg |-> NoRegression,
                     order |-> <<>>, out |-> NoRet] :
                        sel \in BOOLEAN, rs \in ChartRows(ch)}

IsRegressionChart == call.op = "chartData" /\ call.chart # "ScoreVsRank"

\* chartData up to "if (points.length === 0) return defaultResult"
ChartPair ==
    /\ IsRegressionChart
    /\ call.pc = "start"
    /\ LET points == PairUp(call.rows)
       IN  IF ~call.selected \/ points = <<>>
           THEN call' = [call EXCEPT !.pc = "done", !.out = DefaultResult]
           ELSE call' = [call EXCEPT !.pc = "paired", !.points = points]
    /\ DashboardUnchanged

\* const scatterPoints = downsampleData(points, limit)
ChartSample ==
    /\ IsRegressionChart
    /\ call.pc = "paired"
    /\ call' = [call EXCEPT !.pc = "sampled",
                            !.scatter = downsampleData(call.points, ChartLimit(call.chart)),
                            !.order = Append(call.order, "downsample")]
    /\ DashboardUnchanged

\* xVals, yVals and reg = calculateLinearRegression(xVals, yVals)
ChartRegress ==
    /\ IsRegressionChart
    /\ call.pc = "sampled"
    /\ LET xVals == XsOf(call.points)
           yVals == YsOf(call.points)
       IN  call' = [call EXCEPT !.pc = "regressed",
                                !.passed = [x |-> xVals, y |-> yVals],
                                !.reg = calculateLinearRegression(xVals, yVals),
                                !.order = Append(call.order, "regress")]
    /\ DashboardUnchanged

\* The regression line, rSquared and the returned object
ChartReturn ==
    /\ IsRegressionChart
    /\ call.pc = "regressed"
    /\ call' = [call EXCEPT !.pc = "done",
                            !.out = ChartResult(call.scatter, call.reg, call.passed.x)]
    /\ DashboardUnchanged

\* StatsDashboard.scoreVsRankData: null without the columns, else the
\* (score, rank) pairs sorted by rank and downsampled
ScoreVsRank ==
    /\ call.op = "chartData"
    /\ call.chart = "ScoreVsRank"
    /\ call.pc = "start"
    /\ IF ~call.selected
       THEN call' = [call EXCEPT !.pc = "done", !.out = [isNull |-> TRUE, data |-> <<>>]]
       ELSE LET data == ScoreRankData(call.rows)
            IN  call' = [call EXCEPT
                    !.pc = "done",
                    !.order = Append(call.order, "downsample"),
                    !.out = [isNull |-> FALSE,
                             data |-> downsampleData(data, ChartLimit(call.chart))]]
    /\ DashboardUnchanged

NextChart == ChartPair \/ ChartSample \/ ChartRegress \/ ChartReturn \/ ScoreVsRank

SpecChart == InitChart /\ [][NextChart]_vars

---------------------------------------------------------------------------
(* C23, C24 *)

\* Position of the first call of name in the order of calls, 0 if none
FirstCall(order, name) ==
    IF \E i \in DOMAIN order : order[i] = name
    THEN CHOOSE i \in DOMAIN order : order[i] = name /\ \A j \in 1..(i - 1) : order[j] # name
    ELSE 0

\* The paired points of the rows, written out
FullPoints(rows) ==
    LET idx == {i \in DOMAIN rows : rows[i][1].t = "number" /\ rows[i][2].t = "number"}
    IN  [k \in 1..Cardinality(idx) |->
            LET i == CHOOSE i \in idx : Cardinality({j \in idx : j < i}) = k - 1
            IN  [x |-> rows[i][1].n, y |-> rows[i][2].n]]

RegressWasCalled == FirstCall(call.order, "regress") # 0

\* The series passed to calculateLinearRegression are the x and the y of all
\* paired points, and the scatter series is the only place the downsampled
\* points go to
RegressGetsFullSeries ==
    /\ RegressWasCalled =>
          /\ Len(call.passed.x) = Len(call.points)
          /\ Len(call.passed.y) = Len(call.points)
          /\ \A i \in DOMAIN call.points :
                call.passed.x[i] = call.points[i].x /\ call.passed.y[i] = call.points[i].y
    /\ (call.pc = "done" /\ RegressWasCalled) => call.out.scatter = call.scatter

\* C23 as stated: in the charts, downsampleData is called only after the
\* regression was computed, the regression is computed from the full list
\* of paired points, and the downsampled series only goes to the scatter
\* series.
C23_DownsampleAfterStatistics ==
    call.op = "chartData" =>
        /\ FirstCall(call.order, "downsample") # 0 =>
              (call.chart # "ScoreVsRank" =>
                  /\ RegressWasCalled
                  /\ FirstCall(call.order, "regress") < FirstCall(call.order, "downsample"))
        /\ RegressGetsFullSeries

\* C23 amended: in RegressionChart and GeneralScatterChart downsampleData is
\* called first, on the full list of paired points, and
\* calculateLinearRegression after it, on the x and y of that same full
\* list; the downsampled series only goes to the scatter series, and
\* scoreVsRankData computes no statistic at all.
C23_DownsampleNeverFeedsStatistics ==
    call.op = "chartData" =>
        /\ RegressWasCalled =>
              /\ call.chart # "ScoreVsRank"
              /\ call.order = <<"downsample", "regress">>
              /\ call.scatter = downsampleData(call.points, ChartLimit(call.chart))
              /\ call.points = PairUp(call.rows)
        /\ RegressGetsFullSeries

\* RegressionChart on 401 paired points: 201 are drawn, 401 are regressed
C23_Witness ==
    /\ call.op = "chartData"
    /\ call.chart = "RegressionChart"
    /\ call.pc = "done"
    /\ Len(call.points) = 401
    /\ Len(call.out.scatter) = 201
    /\ Len(call.passed.x) = 401
    /\ call.order = <<"downsample", "regress">>

\* C24: when the y values of the paired points are all equal, the chart
\* data RegressionChart and GeneralScatterChart return holds no undefined
\* (NaN) rSquared.
C24_CallersGuardUndefinedRSquared ==
    (call.op = "chartData" /\ call.chart # "ScoreVsRank" /\ call.pc = "done"
        /\ \A i, j \in DOMAIN call.points : call.points[i].y = call.points[j].y)
    => call.out.rSquared.kind = "finite"

---------------------------------------------------------------------------
(* C25 *)

\* C25: for two series with n = min(|x|, |y|) >= 2,
\* calculateLinearRegression returns either null or a record whose slope and
\* intercept are numbers (neither NaN nor infinite), also when the first n
\* x values are all equal.
C25_RegressionWellDefined ==
    (Returned("regress") /\ Min2(Len(call.x), Len(call.y)) >= 2)
    => \/ call.ret.isNull
       \/ call.ret.slope.kind = "finite" /\ call.ret.intercept.kind = "finite"

---------------------------------------------------------------------------
(* CorrelationHeatmap *)

\* CorrelationHeatmap.matrix: one row per column, one cell per column
CorrelationMatrix(columns) ==
    [i \in DOMAIN columns |->
        [j \in DOMAIN columns |->
            IF columns[i].name = columns[j].name THEN OneCorrelation
            ELSE calculateCorrelation(columns[i].values, columns[j].values)]]

\* The calls of calculateCorrelation made while the matrix is built
CorrelationCalls(columns) ==
    {[colX |-> columns[i].index, colY |-> columns[j].index,
      x |-> columns[i].values, y |-> columns[j].values] :
        <<i, j>> \in {p \in (DOMAIN columns) \X (DOMAIN columns) :
                        columns[p[1]].name # columns[p[2]].name}}

\* The heatmap card is rendered past the summary-sheet return, for two or
\* more numeric columns
HeatmapShown(sh, title, columns) == ~isSummarySheet(sh, title) /\ Len(columns) > 1

MaxMatrixRows == 3

MatrixXCells == {Null, Num(1), Num(3)}

MatrixYCells == {Num(1), Num(2), Str(<<"2">>), Str(<<"x">>)}

MatrixSheets ==
    {[columns |-> <<N_yuwen, N_PE>>, rows |-> rs] :
        rs \in SeqsOf({<<a, b>> : a \in MatrixXCells, b \in MatrixYCells}, 0, MaxMatrixRows)}

InitMatrix ==
    /\ DashboardIdle
    /\ call \in {[op |-> "matrix", sheet |-> sh, title |-> t, pc |-> "start",
                  columns |-> <<>>, calls |-> {}, out |-> NoRet] :
                    sh \in MatrixSheets, t \in SheetTitles}

\* StatsDashboard: numericColumns = getNumericColumns(sheet)
MatrixColumns ==
    /\ call.op = "matrix"
    /\ call.pc = "start"
    /\ call' = [call EXCEPT !.pc = "columns", !.columns = getNumericColumns(call.sheet)]
    /\ DashboardUnchanged

\* <CorrelationHeatmap columns={numericColumns} />
MatrixRender ==
    /\ call.op = "matrix"
    /\ call.pc = "columns"
    /\ HeatmapShown(call.sheet, call.title, call.columns)
    /\ call' = [call EXCEPT !.pc = "done",
                            !.calls = CorrelationCalls(call.columns),
                            !.out = CorrelationMatrix(call.columns)]
    /\ DashboardUnchanged

NextMatrix == MatrixColumns \/ MatrixRender

SpecMatrix == InitMatrix /\ [][NextMatrix]_vars

---------------------------------------------------------------------------
(* C26 *)

\* The 1-based rows of the sheet whose cell in the column at 0-based index
\* idx was pushed to that column's values, in row order
RowsOfValues(sh, idx) ==
    LET rows == {r \in DOMAIN sh.rows :
                    LET c == sh.rows[r][idx + 1]
                    IN  c.t = "number" \/ (c.t = "string" /\ ~ParseFloat(c.s).nan)}
    IN  [k \in 1..Cardinality(rows) |->
            CHOOSE r \in rows : Cardinality({q \in rows : q < r}) = k - 1]

\* C26: every pair (x[i], y[i]) that enters calculateCorrelation while
\* CorrelationHeatmap builds its matrix holds the values of the two columns
\* from one and the same row of the sheet, also when a row has a missing or
\* non-numeric cell in one of the columns.
C26_PairsFromSameRow ==
    (call.op = "matrix" /\ call.pc = "done") =>
        \A c \in call.calls :
            \A i \in 1..Min2(Len(c.x), Len(c.y)) :
                RowsOfValues(call.sheet, c.colX)[i] = RowsOfValues(call.sheet, c.colY)[i]

---------------------------------------------------------------------------
(* Classifier and grouping on the same sheet *)

\* The longest sheet classified and grouped, in rows
MaxAgreeRows == 2

\* Class cells: a number, a label, a label that is an inherited key
AgreeClassCells == {Num(1), Str(<<"A">>), Str(S_constructor)}

\* Scores: a number, a numeric string, text
AgreeScoreCells == {Num(50), Str(<<"8", "5">>), Str(<<"x">>)}

AgreeSheets ==
    {[columns |-> <<c1, N_yuwen>>, rows |-> rs] :
        c1 \in GroupFirstColumnNames,
        rs \in SeqsOf({<<a, b>> : a \in AgreeClassCells, b \in AgreeScoreCells}, 0, MaxAgreeRows)}

InitAgree ==
    /\ DashboardIdle
    /\ call \in {[op |-> "classifyAndGroup", sheet |-> sh, pc |-> "start",
                  cols |-> <<>>, ret |-> NoRet] : sh \in AgreeSheets}

\* numericColumns = getNumericColumns(sheet)
AgreeClassify ==
    /\ call.op = "classifyAndGroup"
    /\ call.pc = "start"
    /\ call' = [call EXCEPT !.pc = "classified", !.cols = getNumericColumns(call.sheet)]
    /\ DashboardUnchanged

\* getGroupedByClass(sheet, numericCols)
AgreeGroup ==
    /\ call.op = "classifyAndGroup"
    /\ call.pc = "classified"
    /\ call' = [call EXCEPT !.pc = "done", !.ret = getGroupedByClass(call.sheet, call.cols)]
    /\ DashboardUnchanged

NextAgree == AgreeClassify \/ AgreeGroup

SpecAgree == InitAgree /\ [][NextAgree]_vars

---------------------------------------------------------------------------
(* C27 *)

\* The number of values the map holds for the column, over all its classes
StoredCount(groups, name, rowCount) ==
    Cardinality({p \in (DOMAIN groups) \X (1..rowCount) :
                    /\ name \in DOMAIN groups[p[1]]
                    /\ p[2] <= Len(groups[p[1]][name])})

\* C27: for a sheet with a class column and every NumericColumn c of
\* getNumericColumns(sheet), the lists getGroupedByClass stores for c.name,
\* taken over all class labels, hold c.values.length values together: each
\* cell the classifier counts as numeric, numeric strings included, is in
\* exactly one class group.
C27_ClassifierAndGroupingAgree ==
    (call.op = "classifyAndGroup" /\ call.pc = "done" /\ ~call.ret.isNull) =>
        \A k \in DOMAIN call.cols :
            StoredCount(call.ret.groups, call.cols[k].name, Len(call.sheet.rows))
                = Len(call.cols[k].values)

---------------------------------------------------------------------------
(* DataTable: filtering, sorting and pagination *)

ITEMS_PER_PAGE == 50

S_pingjun == <<"u5E73", "u5747">>

\* The two DataTable components of the repository
TableComponents == {"DataTable.tsx", "part_006"}

\* data.columns.findIndex(c => c === 'u73EDu7EA7' || c === 'Class'), 0-based
TableClassColIndex(data) ==
    IF \E i \in DOMAIN data.columns : data.columns[i] \in {S_banji, N_Class}
    THEN (CHOOSE i \in DOMAIN data.columns :
            /\ data.columns[i] \in {S_banji, N_Class}
            /\ \A j \in 1..(i - 1) : data.columns[j] \notin {S_banji, N_Class}) - 1
    ELSE -1

\* classes: the options of the class <select>, as a set
TableClasses(component, data) ==
    LET classColIndex == TableClassColIndex(data)
        cells == {data.rows[r][classColIndex + 1] : r \in DOMAIN data.rows}
        Falsy(c) == c.t = "null" \/ c = Num(0) \/ c = Str(<<>>)
    IN  IF classColIndex = -1 THEN {}
        ELSE IF component = "DataTable.tsx"
             THEN {StringOf(c) : c \in {d \in cells : d.t # "null"}}
             ELSE {v \in {StringOf(c) : c \in {d \in cells : ~Falsy(d)}} :
                      ~Includes(v, S_pingjun)}

\* filteredRows
TableFilteredRows(data, searchTerm, selectedClass) ==
    LET classColIndex == TableClassColIndex(data)
        InClass(row) == StringOf(row[classColIndex + 1]) = selectedClass
        Matches(row) ==
            \E k \in DOMAIN row : Includes(ToLowerCase(StringOf(row[k])), ToLowerCase(searchTerm))
        ofClass == IF selectedClass # <<"a", "l", "l">> /\ classColIndex # -1
                   THEN SelectSeq(data.rows, InClass) ELSE data.rows
    IN  IF searchTerm # <<>> THEN SelectSeq(ofClass, Matches) ELSE ofClass

\* The place of a character in the collation: digits, then letters
CollationRank(c) ==
    IF IsDigit(c) THEN DigitVal(c)
    ELSE IF \E i \in DOMAIN LowerLetters : LowerLetters[i] = LowerChar(c)
         THEN 10 + (CHOOSE i \in DOMAIN LowerLetters : LowerLetters[i] = LowerChar(c))
         ELSE 40

\* a.localeCompare(b, 'zh-CN') < 0 for strings of digits and Latin letters
\* that differ in more than case
LocaleBefore(a, b) ==
    \E i \in 1..(Min2(Len(a), Len(b)) + 1) :
        /\ \A j \in 1..(i - 1) : CollationRank(a[j]) = CollationRank(b[j])
        /\ \/ i = Len(a) + 1 /\ i <= Len(b)
           \/ i <= Len(a) /\ i <= Len(b) /\ CollationRank(a[i]) < CollationRank(b[i])

\* The comparator of sortedRows is negative for the cells a and b
CellBefore(a, b, direction) ==
    IF a.t = "null" THEN FALSE
    ELSE IF b.t = "null" THEN TRUE
    ELSE IF a.t = "number" /\ b.t = "number"
         THEN IF direction = "asc" THEN a.n < b.n ELSE b.n < a.n
         ELSE IF direction = "asc" THEN LocaleBefore(StringOf(a), StringOf(b))
              ELSE LocaleBefore(StringOf(b), StringOf(a))

\* The stable sort of rows by the cell at position col: the rows of the
\* first key in row order, then those of the next key
RECURSIVE SortByCells(_, _, _, _)
SortByCells(rows, keys, col, direction) ==
    IF keys = {} THEN <<>>
    ELSE LET first == CHOOSE k \in keys :
                         \A o \in keys \ {k} : CellBefore(k, o, direction)
             HasFirst(row) == row[col] = first
         IN  SelectSeq(rows, HasFirst) \o SortByCells(rows, keys \ {first}, col, direction)

\* sortedRows
TableSortedRows(filteredRows, sortConfig) ==
    IF sortConfig.direction = "null" \/ sortConfig.key = -1 THEN filteredRows
    ELSE SortByCells(filteredRows,
                     {filteredRows[r][sortConfig.key + 1] : r \in DOMAIN filteredRows},
                     sortConfig.key + 1, sortConfig.direction)

\* paginatedRows
TablePaginatedRows(sortedRows, currentPage) ==
    LET start == (currentPage - 1) * ITEMS_PER_PAGE
    IN  SubSeq(sortedRows, start + 1, Min2(start + ITEMS_PER_PAGE, Len(sortedRows)))

\* handleSort: asc, then desc, then none
NextSortConfig(sortConfig, originalIndex) ==
    [key |-> originalIndex,
     direction |-> IF sortConfig.key = originalIndex /\ sortConfig.direction = "asc" THEN "desc"
                   ELSE IF sortConfig.key = originalIndex /\ sortConfig.direction = "desc" THEN "null"
                   ELSE "asc"]

\* The rows the table shows sorted, and its page count
SortedNow == TableSortedRows(TableFilteredRows(call.data, call.searchTerm, call.selectedClass),
                             call.sortConfig)

TotalPages == CeilDiv(Len(SortedNow), ITEMS_PER_PAGE)

\* Row i of the sheets shown: class A or B, a name, a score
TableRow(i) ==
    <<Str(IF i % 2 = 1 THEN <<"A">> ELSE <<"B">>),
      Str(IF i = 1 THEN <<"x">> ELSE <<"y">>),
      Num(i % 3)>>

\* Sheets of less than a page, exactly one page, and more
TableRowCounts == {0, 1, ITEMS_PER_PAGE, ITEMS_PER_PAGE + 1, 2 * ITEMS_PER_PAGE + 1}

TableSheets ==
    {[columns |-> <<N_Class, S_xingming, N_PE>>, rows |-> [i \in 1..n |-> TableRow(i)]] :
        n \in TableRowCounts}

\* Texts typed into the search box
SearchTerms == {<<>>, <<"x">>, <<"a">>, <<"z">>}

InitPages ==
    /\ DashboardIdle
    /\ call \in {[op |-> "DataTable", component |-> c, data |-> d,
                  searchTerm |-> <<>>, selectedClass |-> <<"a", "l", "l">>,
                  sortConfig |-> [key |-> -1, direction |-> "null"],
                  currentPage |-> 1] : c \in TableComponents, d \in TableSheets}

\* The search box's onChange
ChangeSearchTerm ==
    /\ call.op = "DataTable"
    /\ \E term \in SearchTerms \ {call.searchTerm} :
          call' = [call EXCEPT !.searchTerm = term,
                               !.currentPage = IF call.component = "DataTable.tsx" THEN 1 ELSE @]
    /\ DashboardUnchanged

\* The class <select>'s onChange
ChangeSelectedClass ==
    /\ call.op = "DataTable"
    /\ TableClasses(call.component, call.data) # {}
    /\ \E cls \in (TableClasses(call.component, call.data) \cup {<<"a", "l", "l">>})
                    \ {call.selectedClass} :
          call' = [call EXCEPT !.selectedClass = cls,
                               !.currentPage = IF call.component = "DataTable.tsx" THEN 1 ELSE @]
    /\ DashboardUnchanged

\* A click on a column header
ClickSort ==
    /\ call.op = "DataTable"
    /\ \E originalIndex \in 0..(Len(call.data.columns) - 1) :
          call' = [call EXCEPT !.sortConfig = NextSortConfig(@, originalIndex)]
    /\ DashboardUnchanged

\* The previous-page button, disabled on page 1
PreviousPage ==
    /\ call.op = "DataTable"
    /\ call.currentPage # 1
    /\ call' = [call EXCEPT !.currentPage = @ - 1]
    /\ DashboardUnchanged

\* The next-page button
NextPageDisabled ==
    IF call.component = "DataTable.tsx"
    THEN call.currentPage = TotalPages \/ TotalPages = 0
    ELSE Len(TablePaginatedRows(SortedNow, call.currentPage)) < ITEMS_PER_PAGE

NextPage ==
    /\ call.op = "DataTable"
    /\ ~NextPageDisabled
    /\ call' = [call EXCEPT !.currentPage = @ + 1]
    /\ DashboardUnchanged

NextPages == ChangeSearchTerm \/ ChangeSelectedClass \/ ClickSort \/ PreviousPage \/ NextPage

SpecPages == InitPages /\ [][NextPages]_vars

---------------------------------------------------------------------------
(* C28 *)

\* C28: after any sequence of search-text changes, class-filter changes,
\* sort clicks and enabled next-page and previous-page clicks in DataTable,
\* 1 <= currentPage <= max(1, ceil(matching rows / 50)), so that the page
\* shown is not empty when a row matches the filters.
C28_CurrentPageInRange ==
    call.op = "DataTable" =>
        /\ 1 <= call.currentPage
        /\ call.currentPage <= Max2(1, TotalPages)
        /\ Len(SortedNow) > 0 => Len(TablePaginatedRows(SortedNow, call.currentPage)) > 0

---------------------------------------------------------------------------
(* DataTable: column order, hidden columns, drag and drop *)

\* The columns of the sheet shown
MaxColumns == 3

\* draggingColIndex === null
NotDragging == -1

\* Array.prototype.splice(index, 1) and splice(index, 0, item), 0-based
SpliceOut(order, index) ==
    IF index < Len(order) THEN SubSeq(order, 1, index) \o SubSeq(order, index + 2, Len(order))
    ELSE order

SpliceIn(order, index, item) ==
    LET at == Min2(index, Len(order))
    IN  SubSeq(order, 1, at) \o <<item>> \o SubSeq(order, at + 1, Len(order))

\* visibleColumnOrder
visibleColumnOrder(columnOrder, hiddenColumns) ==
    LET Shown(idx) == idx \notin hiddenColumns
    IN  SelectSeq(columnOrder, Shown)

\* newOrder of handleDrop
DroppedOrder(columnOrder, draggingColIndex, targetIndex) ==
    LET item == columnOrder[draggingColIndex + 1]
    IN  SpliceIn(SpliceOut(columnOrder, draggingColIndex), targetIndex, item)

NoDrop == [done |-> FALSE, from |-> -1, to |-> -1, before |-> <<>>]

InitColumns ==
    /\ DashboardIdle
    /\ call \in {[op |-> "columns", columnCount |-> n,
                  columnOrder |-> [i \in 1..n |-> i - 1],
                  hiddenColumns |-> {}, draggingColIndex |-> NotDragging,
                  inDrag |-> FALSE, dragged |-> -1, drop |-> NoDrop] : n \in 2..MaxColumns}

\* toggleColumn(idx) from the column menu, which lists every column; the
\* menu is not reachable while the pointer drags a header
ToggleColumn ==
    /\ call.op = "columns"
    /\ ~call.inDrag
    /\ \E idx \in 0..(call.columnCount - 1) :
          call' = [call EXCEPT !.hiddenColumns = IF idx \in @ THEN @ \ {idx} ELSE @ \cup {idx},
                               !.drop = NoDrop]
    /\ DashboardUnchanged

\* onDragStart of the header at visualIdx, which shows column originalIdx
DragStart ==
    /\ call.op = "columns"
    /\ ~call.inDrag
    /\ LET visible == visibleColumnOrder(call.columnOrder, call.hiddenColumns)
       IN  \E visualIdx \in 0..(Len(visible) - 1) :
              call' = [call EXCEPT !.draggingColIndex = visualIdx,
                                   !.inDrag = TRUE,
                                   !.dragged = visible[visualIdx + 1],
                                   !.drop = NoDrop]
    /\ DashboardUnchanged

\* onDrop of the header at visualIdx
Drop ==
    /\ call.op = "columns"
    /\ call.inDrag
    /\ LET visible == visibleColumnOrder(call.columnOrder, call.hiddenColumns)
       IN  \E targetIndex \in 0..(Len(visible) - 1) :
              IF call.draggingColIndex = NotDragging \/ call.draggingColIndex = targetIndex
              THEN call' = [call EXCEPT !.inDrag = FALSE, !.drop = NoDrop]
              ELSE call' = [call EXCEPT
                      !.inDrag = FALSE,
                      !.columnOrder = DroppedOrder(@, call.draggingColIndex, targetIndex),
                      !.draggingColIndex = NotDragging,
                      !.drop = [done |-> TRUE, from |-> call.dragged,
                                to |-> visible[targetIndex + 1], before |-> call.columnOrder]]
    /\ DashboardUnchanged

\* The header is released outside every header: no handler runs, and
\* draggingColIndex keeps its value
DropOutside ==
    /\ call.op = "columns"
    /\ call.inDrag
    /\ call' = [call EXCEPT !.inDrag = FALSE]
    /\ DashboardUnchanged

NextColumns == ToggleColumn \/ DragStart \/ Drop \/ DropOutside

SpecColumns == InitColumns /\ [][NextColumns]_vars

---------------------------------------------------------------------------
(* C29 *)

PositionIn(order, idx) == CHOOSE p \in DOMAIN order : order[p] = idx

Without(order, idx) ==
    LET Other(i) == i # idx
    IN  SelectSeq(order, Other)

\* C29: after any column hide/show toggles, dragging the header of column A
\* and dropping it on the header of column B puts column A at the position
\* column B held in columnOrder and leaves the other columns in their
\* order, and columnOrder stays a permutation of all column indices.
C29_DragMovesDraggedColumn ==
    call.op = "columns" =>
        /\ Len(call.columnOrder) = call.columnCount
        /\ {call.columnOrder[p] : p \in DOMAIN call.columnOrder} = 0..(call.columnCount - 1)
        /\ call.drop.done =>
              /\ call.columnOrder[PositionIn(call.drop.before, call.drop.to)] = call.drop.from
              /\ Without(call.columnOrder, call.drop.from) = Without(call.drop.before, call.drop.from)

---------------------------------------------------------------------------
(* processHistoryData *)

S_lici == <<"u5386", "u6B21">>

S_12yue == <<"1", "2", "u6708">>

S_qizhong == <<"u671F", "u4E2D">>

S_wuli == <<"u7269", "u7406">>

S_zhengzhi == <<"u653F", "u6CBB">>

\* The names processHistoryData gives to the sub-sheets it recognises
N_zongfengailan == S_lici \o <<"-">> \o S_zongfen \o <<"u6982", "u89C8">>

N_yushuying == S_lici \o <<"-">> \o S_yushuying

N_lihuasheng == S_lici \o <<"-", "u7406", "u5316", "u751F">>

N_zhengshidi == S_lici \o <<"-", "u653F", "u53F2", "u5730">>

\* String.prototype.trim for strings whose only white space is the space
RECURSIVE TrimEnd(_)
TrimEnd(s) == IF s # <<>> /\ s[Len(s)] = " " THEN TrimEnd(SubSeq(s, 1, Len(s) - 1)) ELSE s

Trim(s) == TrimEnd(SkipSpaces(s))

\* String(c || '').trim()
TrimmedText(c) ==
    IF c.t = "null" \/ c = Num(0) \/ c = Str(<<>>) THEN <<>> ELSE Trim(StringOf(c))

\* The history argument: null, the sheet itself, the sheet under the key
\* 'u5386u6B21u6210u7EE9', or an object with neither
RawSheetOf(historyData) ==
    CASE historyData.kind = "direct" -> [isNull |-> FALSE, sheet |-> historyData.sheet]
      [] historyData.kind = "nested" -> [isNull |-> FALSE, sheet |-> historyData.sheet]
      [] OTHER                       -> [isNull |-> TRUE, sheet |-> EmptySheet]

\* The 0-based indices of the header rows, with the fallback to row 0
HeaderIndices(rows) ==
    LET IsHeader(index) ==
            LET row == rows[index + 1]
                firstCell == IF row = <<>> THEN <<>> ELSE TrimmedText(row[1])
            IN  firstCell = S_banji \/ firstCell = N_Class
        found == SelectSeq([k \in 1..Len(rows) |-> k - 1], IsHeader)
    IN  IF found = <<>> /\ Len(rows) > 0 THEN <<0>> ELSE found

\* headerIndices[i + 1] || rows.length, for the 0-based i
EndIndexOf(headerIndices, i, rows) ==
    IF i + 2 \in DOMAIN headerIndices /\ headerIndices[i + 2] # 0
    THEN headerIndices[i + 2] ELSE Len(rows)

\* The name guessed from the columns of sub-sheet i (0-based)
GuessedName(sheetColumns, i) ==
    LET Some(a, b) == \E k \in DOMAIN sheetColumns :
                          Includes(sheetColumns[k], a) \/ Includes(sheetColumns[k], b)
    IN  IF Some(S_12yue \o S_zongfen, S_qizhong \o S_zongfen) THEN N_zongfengailan
        ELSE IF Some(S_12yue \o S_yushuying, S_yuwen) THEN N_yushuying
        ELSE IF Some(S_12yue \o S_wuli, S_wuli) THEN N_lihuasheng
        ELSE IF Some(S_12yue \o S_zhengzhi, S_zhengzhi) THEN N_zhengshidi
        ELSE S_lici \o <<"-">> \o NatToString(i + 1)

\* The sub-sheet keeps the guessed name, collision or not
NameAsGuessed(guessed, uniqueName, counter, names, sheets) == guessed

\* The while loop that looks for a free name: the guessed name, then the
\* guessed name with -2, -3, ...
RECURSIVE UniqueName(_, _, _, _, _)
UniqueName(guessed, uniqueName, counter, names, sheets) ==
    IF \/ \E k \in DOMAIN names : names[k] = uniqueName
       \/ uniqueName \in DOMAIN sheets
       \/ uniqueName \in InheritedFunctionKeys
    THEN UniqueName(guessed, guessed \o <<"-">> \o NatToString(counter),
                    counter + 1, names, sheets)
    ELSE uniqueName

\* The number v / 10 as a cell
Tenths(v) == IF v % 10 = 0 THEN Num(v \div 10) ELSE [t |-> "tenths", n |-> v, s |-> <<>>]

\* The digits after the point of a number's text
FractionDigits(rest) == IF rest # <<>> /\ Head(rest) = "." THEN Tail(rest) ELSE <<>>

\* The number whose text is whole followed by rest, in ten-thousandths
DecimalParts(whole, rest) ==
    LET frac == FractionDigits(rest)
        pad  == [k \in 1..4 |-> IF k <= Len(frac) THEN frac[k] ELSE "0"]
    IN  IF /\ \A k \in DOMAIN frac : IsDigit(frac[k])
           /\ Len(frac) <= 4
           /\ rest = <<>> \/ Head(rest) = "."
           /\ Len(whole) + Len(frac) > 0
        THEN Finite(10000 * DecimalValue(whole) + DecimalValue(pad)) ELSE NaN

UnsignedDecimal(body) ==
    LET whole == DigitPrefix(body)
    IN  DecimalParts(whole, SubSeq(body, Len(whole) + 1, Len(body)))

Negated(v) == IF v.nan THEN NaN ELSE Finite(-v.val)

\* Number(cell) for the trimmed text t
DecimalOfTrimmed(t) ==
    IF t = <<>> THEN Finite(0)
    ELSE IF Head(t) = "-" THEN Negated(UnsignedDecimal(Tail(t)))
    ELSE UnsignedDecimal(t)

\* Number(cell) for strings of digits with at most one point and an
\* optional sign, as tenThousandths / 10000 for up to four decimals
DecimalOf(s) == DecimalOfTrimmed(Trim(s))

\* Number(num.toFixed(1)) in tenths, the larger tenth on a tie
RoundedTenths(tenThousandths) ==
    IF tenThousandths >= 0 THEN (tenThousandths + 500) \div 1000
    ELSE -((-tenThousandths + 500) \div 1000)

\* The cell cleaning of cleanedRows
CleanCell(cell) ==
    LET num == CASE cell.t = "null"   -> Finite(0)
                 [] cell.t = "number" -> Finite(10000 * cell.n)
                 [] cell.t = "string" -> DecimalOf(cell.s)
    IN  IF cell = Str(<<>>) THEN Null
        ELSE IF ~num.nan
             THEN IF Includes(StringOf(cell), <<".">>) THEN Tenths(RoundedTenths(num.val))
                  ELSE Num(num.val \div 10000)
             ELSE IF cell.t = "string"
                  THEN IF Trim(cell.s) = <<>> THEN Null ELSE Str(Trim(cell.s))
                  ELSE cell

\* The sheet made of the rows from header row startIndex up to endIndex
SubSheetOf(rows, startIndex, endIndex) ==
    LET NotEmpty(r) == Len(r) # 0
        sheetRows == SelectSeq(SubSeq(rows, startIndex + 2, endIndex), NotEmpty)
        header    == rows[startIndex + 1]
    IN  [columns |-> [k \in DOMAIN header |-> TrimmedText(header[k])],
         rows    |-> [r \in DOMAIN sheetRows |->
                         [k \in DOMAIN sheetRows[r] |-> CleanCell(sheetRows[r][k])]]]

\* headerIndices.forEach from the 0-based i on; acc holds newSheetNames and
\* newSheets
RECURSIVE AddSubSheets(_, _, _, _)
AddSubSheets(acc, rows, headerIndices, i) ==
    IF i >= Len(headerIndices) THEN acc
    ELSE LET startIndex == headerIndices[i + 1]
             subSheet   == SubSheetOf(rows, startIndex, EndIndexOf(headerIndices, i, rows))
             guessed    == GuessedName(subSheet.columns, i)
             unique     == UniqueName(guessed, guessed, 2, acc.sheetNames, acc.sheets)
         IN  AddSubSheets([sheetNames |-> Append(acc.sheetNames, unique),
                           sheets     |-> (unique :> subSheet) @@ acc.sheets],
                          rows, headerIndices, i + 1)

\* The spread copies processHistoryData works on; the argument is kept
HistoryCopies(existingData) ==
    [copy |-> [sheetNames |-> existingData.sheetNames, sheets |-> existingData.sheets],
     argument |-> existingData]

\* out is the AppData returned, existingData the argument after the call
processHistoryData(historyData, existingData) ==
    LET copies   == HistoryCopies(existingData)
        rawSheet == RawSheetOf(historyData)
        out      == IF rawSheet.isNull THEN copies.copy
                    ELSE AddSubSheets(copies.copy, rawSheet.sheet.rows,
                                      HeaderIndices(rawSheet.sheet.rows), 0)
    IN  [out |-> out,
         existingData |-> copies.argument]

\* The longest history sheet, in rows
MaxHistoryRows == 3

\* Header rows of three kinds, data rows, and an empty row
HistoryRowKinds ==
    {<<Str(S_banji), Str(S_yuwen)>>,
     <<Str(<<" ">> \o N_Class \o <<" ">>), Str(S_12yue \o S_wuli)>>,
     <<Str(S_banji), Str(<<"x">>)>>,
     <<Num(1), Str(<<"8", "8", "6", ".", "1", "8", "8", "8">>)>>,
     <<Null, Str(<<" ", "a", " ">>)>>,
     <<>>}

\* Longer histories: two tables with rows, rows before the first header
\* row, and an empty row inside a table
HistoryScenarios ==
    LET header == <<Str(S_banji), Str(S_yuwen)>>
        other  == <<Str(<<" ">> \o N_Class \o <<" ">>), Str(S_12yue \o S_wuli)>>
        data   == <<Num(1), Str(<<"8", "8", "6", ".", "1", "8", "8", "8">>)>>
        text   == <<Null, Str(<<" ", "a", " ">>)>>
    IN  {<<header, data, header, text>>,
         <<text, other, data>>,
         <<header, <<>>, data, other>>}

HistoryInputs ==
    {[kind |-> "null", sheet |-> EmptySheet], [kind |-> "other", sheet |-> EmptySheet]}
    \cup {[kind |-> k, sheet |-> [columns |-> <<>>, rows |-> rs]] :
            k \in {"direct", "nested"},
            rs \in SeqsOf(HistoryRowKinds, 0, MaxHistoryRows) \cup HistoryScenarios}

OneRowSheet == [columns |-> <<S_banji>>, rows |-> <<<<Num(1)>>>>]

\* The AppData of names: distinct names, one sheet for each
AppDataOf(names) ==
    [sheetNames |-> names,
     sheets |-> [n \in {names[k] : k \in DOMAIN names} |->
                    [OneRowSheet EXCEPT !.columns = <<n>>]]]

\* Loaded data: none, a grade sheet, and sheets whose names the history's
\* sub-sheets will be given
ExistingNames ==
    {<<>>, <<S_chengji>>, <<N_yushuying>>,
     <<N_yushuying \o <<"-", "2">>, N_yushuying>>,
     <<S_lici \o <<"-", "1">>, N_lihuasheng>>}

InitHistory ==
    /\ DashboardIdle
    /\ call \in {[op |-> "processHistory", historyData |-> h, existingData |-> AppDataOf(names),
                  given |-> AppDataOf(names), done |-> FALSE, ret |-> NoRet] :
                    h \in HistoryInputs, names \in ExistingNames}

\* processHistoryData(historyJson, jsonData)
ProcessHistory ==
    /\ Pending("processHistory")
    /\ LET result == processHistoryData(call.historyData, call.existingData)
       IN  call' = [call EXCEPT !.done = TRUE, !.ret = result.out,
                                !.existingData = result.existingData]
    /\ DashboardUnchanged

NextHistory == ProcessHistory

SpecHistory == InitHistory /\ [][NextHistory]_vars

---------------------------------------------------------------------------
(* C30 *)

\* The sub-sheets of the history: one for each header row, one for a sheet
\* with rows and no header row
SubSheetCount(historyData) ==
    IF historyData.kind \notin {"direct", "nested"} THEN 0
    ELSE LET rows == historyData.sheet.rows
             headers == {r \in DOMAIN rows :
                            /\ rows[r] # <<>>
                            /\ rows[r][1].t = "string"
                            /\ Trim(rows[r][1].s) \in {S_banji, N_Class}}
         IN  IF headers = {} /\ Len(rows) > 0 THEN 1 ELSE Cardinality(headers)

\* name is base, or base with a numeric suffix from 2 on
IsSuffixedFrom(name, count) ==
    \E base \in {N_zongfengailan, N_yushuying, N_lihuasheng, N_zhengshidi}
                    \cup {S_lici \o <<"-">> \o NatToString(i) : i \in 1..count} :
        \/ name = base
        \/ \E k \in 2..(count + 1) : name = base \o <<"-">> \o NatToString(k)

\* C30: for an existing AppData with distinct sheetNames that are the keys
\* of sheets, processHistoryData returns data in which the existing names
\* come first in their order with their sheets unchanged, every sub-sheet of
\* the history has a name of its own, different from the existing names and
\* from the names added before it (a numeric suffix is appended on
\* collision), sheetNames has no duplicates and is the key set of sheets,
\* and the existingData argument is as it was given.
C30_HistorySheetsAdded ==
    Returned("processHistory") =>
        LET given == call.given
            out   == call.ret
            old   == Len(given.sheetNames)
        IN  /\ Len(out.sheetNames) = old + SubSheetCount(call.historyData)
            /\ SubSeq(out.sheetNames, 1, old) = given.sheetNames
            /\ \A n \in DOMAIN given.sheets : n \in DOMAIN out.sheets /\ out.sheets[n] = given.sheets[n]
            /\ \A i, j \in DOMAIN out.sheetNames : i # j => out.sheetNames[i] # out.sheetNames[j]
            /\ {out.sheetNames[i] : i \in DOMAIN out.sheetNames} = DOMAIN out.sheets
            /\ \A i \in (old + 1)..Len(out.sheetNames) :
                  IsSuffixedFrom(out.sheetNames[i], Len(out.sheetNames))
            /\ call.existingData = given

\* Two sub-sheets with a u8BEDu6587 column added to data that holds the
\* guessed name and its first suffix: they are named with the suffixes 3, 4
C30_Witness ==
    /\ Returned("processHistory")
    /\ call.given.sheetNames = <<N_yushuying \o <<"-", "2">>, N_yushuying>>
    /\ call.ret.sheetNames = <<N_yushuying \o <<"-", "2">>, N_yushuying,
                               N_yushuying \o <<"-", "3">>, N_yushuying \o <<"-", "4">>>>
    /\ call.existingData = call.given

=============================================================================
